---- MODULE Spec2Model ----
(***************************************************************************)
(* Liquidation-risk monitoring agent: the per-wallet position memory       *)
(* (PositionMemory), the monitoring-setup actions (initializeMonitoring,   *)
(* updateWallet, getMonitoringConfig) and the position-monitoring actions  *)
(* (discoverPositions, addPosition, checkHealthFactor,                    *)
(* calculateLiquidationPrice, calculateBuffer, checkAlertThreshold,       *)
(* monitorPositions).                                                      *)
(*                                                                         *)
(* JavaScript numbers are modelled as exact rationals <<n, d>> with d >= 0 *)
(* in lowest terms; <<1, 0>> is Infinity, <<-1, 0>> is -Infinity and       *)
(* <<0, 0>> is NaN.  The inputs of the model are chosen so that the        *)
(* IEEE-754 results of the handlers' arithmetic compare the same way as    *)
(* the exact rationals.  An optional (possibly undefined) parameter is a   *)
(* sequence of length 0 or 1.  Decimal strings (collateralAmount,          *)
(* debtAmount) are sequences of one-character strings.                     *)
(*                                                                         *)
(* Spec and SpecCycle take every action call as one step.  SpecDiscover    *)
(* and SpecDiscoverFair split discoverPositions at its await: the fetches  *)
(* of a call settle one by one, in any order, and calls may overlap.       *)
(* SpecReplace does the same with initializeMonitoring, updateWallet and   *)
(* monitorPositions issued while discoverPositions calls are waiting.      *)
(* The memory belongs to one context, activated with the arguments args    *)
(* and held under the key positionContext.key derives from them.           *)
(***************************************************************************)
EXTENDS Integers, Sequences, FiniteSets, TLC

(***************************************************************************)
(* Bounds of the model.                                                    *)
(***************************************************************************)
\* Date.now() ranges over 1..MaxTime
MaxTime == 2
\* addPosition is not taken beyond this many positions
MaxPositions == 2
\* the driver issues at most this many action calls
MaxCalls == 4
\* at most this many discoverPositions calls start their fetches
MaxFlights == 2
\* number of calls of a driver that only initializes, discovers and evaluates
MaxCycleCalls == 5
\* calls the driver issues while discoverPositions calls are in flight
MaxReplaceCalls == 3

(***************************************************************************)
(* JavaScript number arithmetic on rationals.                              *)
(***************************************************************************)
Abs(x) == IF x < 0 THEN -x ELSE x

RECURSIVE GCD(_, _)
GCD(a, b) == IF b = 0 THEN a ELSE GCD(b, a % b)

Norm(n, d) ==
    IF d = 0
    THEN (IF n > 0 THEN <<1, 0>> ELSE IF n < 0 THEN <<-1, 0>> ELSE <<0, 0>>)
    ELSE LET g == GCD(Abs(n), Abs(d))
             s == IF d < 0 THEN -1 ELSE 1
         IN  <<(s * n) \div g, (s * d) \div g>>

Num(i) == <<i, 1>>
Infinity == <<1, 0>>
NaN == <<0, 0>>
Zero == <<0, 1>>
One == <<1, 1>>
Hundred == <<100, 1>>

IsNaN(a) == a = NaN
isFinite(a) == a[2] # 0

Mul(a, b) == Norm(a[1] * b[1], a[2] * b[2])
Div(a, b) ==
    IF b[1] < 0
    THEN Norm(-(a[1] * b[2]), a[2] * (-b[1]))
    ELSE Norm(a[1] * b[2], a[2] * b[1])
Sub(a, b) == Norm(a[1] * b[2] - b[1] * a[2], a[2] * b[2])

\* a < b; every comparison with NaN is false
Lt(a, b) == ~IsNaN(a) /\ ~IsNaN(b) /\ a[1] * b[2] < b[1] * a[2]
Gt(a, b) == Lt(b, a)

\* Math.max(a, b)
MathMax(a, b) ==
    IF IsNaN(a) \/ IsNaN(b) THEN NaN ELSE IF Lt(a, b) THEN b ELSE a

\* truthiness of a number: 0 and NaN are falsy
TruthyNum(a) == a[1] # 0

(***************************************************************************)
(* parseFloat on a decimal string: optional sign, then "Infinity" or       *)
(* digits and an optional fraction; NaN when no digit is found.            *)
(***************************************************************************)
InfinityChars == <<"I", "n", "f", "i", "n", "i", "t", "y">>
NaNChars == <<"N", "a", "N">>

DigitChars == {"0", "1", "2", "3", "4", "5", "6", "7", "8", "9"}

DigitVal(c) ==
    CASE c = "0" -> 0 [] c = "1" -> 1 [] c = "2" -> 2 [] c = "3" -> 3
      [] c = "4" -> 4 [] c = "5" -> 5 [] c = "6" -> 6 [] c = "7" -> 7
      [] c = "8" -> 8 [] c = "9" -> 9

\* number of consecutive digit characters of s starting at index i
RECURSIVE DigitRun(_, _)
DigitRun(s, i) ==
    IF i <= Len(s) /\ s[i] \in DigitChars THEN 1 + DigitRun(s, i + 1) ELSE 0

\* value of the k digits of s starting at index i, read in base 10
RECURSIVE DigitsValue(_, _, _)
DigitsValue(s, i, k) ==
    IF k = 0 THEN 0
    ELSE DigitsValue(s, i, k - 1) * 10 + DigitVal(s[i + k - 1])

RECURSIVE Pow10(_)
Pow10(k) == IF k = 0 THEN 1 ELSE 10 * Pow10(k - 1)

parseFloat(s) ==
    LET hasSign == Len(s) >= 1 /\ s[1] \in {"-", "+"}
        sgn == IF Len(s) >= 1 /\ s[1] = "-" THEN -1 ELSE 1
        i0 == IF hasSign THEN 2 ELSE 1
        ni == DigitRun(s, i0)
        dot == i0 + ni
        nf == IF dot <= Len(s) /\ s[dot] = "." THEN DigitRun(s, dot + 1) ELSE 0
        ip == DigitsValue(s, i0, ni)
        fp == DigitsValue(s, dot + 1, nf)
        inf == Len(s) >= i0 + 7 /\ SubSeq(s, i0, i0 + 7) = InfinityChars
    IN  IF inf THEN Norm(sgn, 0)
        ELSE IF ni + nf = 0 THEN NaN
        ELSE Norm(sgn * (ip * Pow10(nf) + fp), Pow10(nf))

(***************************************************************************)
(* Optional parameters and generic array helpers.                          *)
(***************************************************************************)
None == <<>>
Some(x) == <<x>>
IsSome(o) == Len(o) = 1

\* Array.prototype.findIndex: 0 stands for -1 (not found)
FindIndexById(arr, id) ==
    IF \E i \in 1..Len(arr) : arr[i].positionId = id
    THEN CHOOSE i \in 1..Len(arr) :
            /\ arr[i].positionId = id
            /\ \A j \in 1..(i - 1) : arr[j].positionId # id
    ELSE 0

\* FindPositionIndex that never finds
FindPositionIndex_NotFound(arr, id) == 0

FindPositionIndex(arr, id) ==
    IF \E i \in 1..Len(arr) : arr[i].id = id
    THEN CHOOSE i \in 1..Len(arr) :
            /\ arr[i].id = id
            /\ \A j \in 1..(i - 1) : arr[j].id # id
    ELSE 0

\* Upsert with the lookup dropped: every sample is pushed
Upsert_AlwaysPush(arr, e) == Append(arr, e)

\* existingIndex >= 0 ? arr[existingIndex] = e : arr.push(e)
Upsert(arr, e) ==
    LET idx == FindIndexById(arr, e.positionId)
    IN  IF idx > 0 THEN [arr EXCEPT ![idx] = e] ELSE Append(arr, e)

\* entries.forEach(e => upsert e into arr), in order
RECURSIVE UpsertAll(_, _)
UpsertAll(arr, entries) ==
    IF entries = <<>> THEN arr
    ELSE UpsertAll(Upsert(arr, Head(entries)), Tail(entries))

\* arr.filter(p => p.id === id)
RECURSIVE FilterById(_, _)
FilterById(arr, id) ==
    IF arr = <<>> THEN <<>>
    ELSE IF Head(arr).id = id
         THEN <<Head(arr)>> \o FilterById(Tail(arr), id)
         ELSE FilterById(Tail(arr), id)

(***************************************************************************)
(* Inputs of the model.                                                    *)
(***************************************************************************)
W1 == "0xABCDEF0000000000000000000000000000000001"
W2 == "0x1111111111111111111111111111111111111111"
\* strings that are no wallet address: free text, and 0x with 39 hex digits
WNotAnAddress == "not-an-address"
WShort == "0xabcdef000000000000000000000000000000001"
\* W1 in lower case
W1Lower == "0xabcdef0000000000000000000000000000000001"

\* the characters of the strings above
Repeat(c, n) == [i \in 1..n |-> c]
StringChars(w) ==
    CASE w = W1 -> <<"0", "x", "A", "B", "C", "D", "E", "F">> \o Repeat("0", 33) \o <<"1">>
      [] w = W2 -> <<"0", "x">> \o Repeat("1", 40)
      [] w = W1Lower ->
            <<"0", "x", "a", "b", "c", "d", "e", "f">> \o Repeat("0", 33) \o <<"1">>
      [] w = WNotAnAddress ->
            <<"n", "o", "t", "-", "a", "n", "-", "a", "d", "d", "r", "e", "s", "s">>
      [] w = WShort -> <<"0", "x", "a", "b", "c", "d", "e", "f">> \o Repeat("0", 32) \o <<"1">>
      [] OTHER -> <<>>

HexChars ==
    {"0", "1", "2", "3", "4", "5", "6", "7", "8", "9",
     "a", "b", "c", "d", "e", "f", "A", "B", "C", "D", "E", "F"}

\* IsEthereumAddress without the count of the hex digits
IsEthereumAddress_AnyLength(val) ==
    LET s == StringChars(val)
    IN  /\ Len(s) >= 2
        /\ s[1] = "0"
        /\ s[2] = "x"
        /\ \A i \in 3..Len(s) : s[i] \in HexChars

\* /^0x[a-fA-F0-9]{40}$/.test(val)
IsEthereumAddress(val) ==
    LET s == StringChars(val)
    IN  /\ Len(s) = 42
        /\ s[1] = "0"
        /\ s[2] = "x"
        /\ \A i \in 3..42 : s[i] \in HexChars

\* protocolIds arguments: z.array(z.string())
\* the calls of initializeMonitoring: wallet, protocolIds and an optional
\* alertThreshold
InitializeArgs ==
    {[wallet |-> W1, protocolIds |-> <<"aave-v3", "curve">>, alertThreshold |-> th] :
        th \in {<<>>, <<(<<0, 1>>)>>, <<(<<25, 1>>)>>}}
    \cup {[wallet |-> "", protocolIds |-> <<"aave-v3", "curve">>,
            alertThreshold |-> <<>>],
           [wallet |-> W1, protocolIds |-> <<>>, alertThreshold |-> <<>>],
           [wallet |-> WNotAnAddress, protocolIds |-> <<"aave-v3", "curve">>,
            alertThreshold |-> <<>>],
           [wallet |-> WShort, protocolIds |-> <<"aave-v3", "curve">>,
            alertThreshold |-> <<>>]}

\* the calls of updateWallet
UpdateWalletArgs == {[wallet |-> W2], [wallet |-> ""]}

\* the calls of discoverPositions: optional wallet and protocolIds overrides
DiscoverArgs ==
    {[wallet |-> <<>>, protocolIds |-> <<>>],
     [wallet |-> <<>>, protocolIds |-> <<(<<"aave-v3", "aave-v3">>)>>],
     [wallet |-> <<W2>>, protocolIds |-> <<>>],
     [wallet |-> <<W2>>, protocolIds |-> <<(<<"curve">>)>>]}

\* the numeric part of an addPosition call
Profile(amt, damt, cv, dv, lt) ==
    [collateralAmount |-> amt, debtAmount |-> damt,
     collateralValue |-> cv, debtValue |-> dv, liquidationThreshold |-> lt]

\* healthy: HF 4, buffer 300, liquidation price 625, current price 2500
ProfileSafe ==
    Profile(<<"1", "0">>, <<"5", "0", "0", "0">>, Num(25000), Num(5000), <<4, 5>>)
\* liquidatable: HF 10/11
ProfileRisky ==
    Profile(<<"1", "0">>, <<"2", "2", "0", "0", "0">>, Num(25000), Num(22000), <<4, 5>>)
\* HF 5/4, buffer exactly 25
ProfileEdge ==
    Profile(<<"1", "0">>, <<"1", "6", "0", "0", "0">>, Num(25000), Num(16000), <<4, 5>>)
\* no debt
ProfileNoDebt ==
    Profile(<<"1", "0">>, <<"0">>, Num(25000), Zero, <<4, 5>>)
\* no collateral
ProfileNoCollateral ==
    Profile(<<"0">>, <<"5", "0", "0", "0">>, Zero, Num(5000), <<4, 5>>)
\* liquidation threshold 0, fractional collateral amount 2.5
ProfileNoThreshold ==
    Profile(<<"2", ".", "5">>, <<"5", "0", "0", "0">>, Num(25000), Num(5000), Zero)

\* a negative debt value
ProfileNegativeDebt ==
    Profile(<<"1", "0">>, <<"5", "0", "0", "0">>, Num(25000), Num(-5000), <<4, 5>>)
\* liquidation threshold 1.5
ProfileThresholdAboveOne ==
    Profile(<<"1", "0">>, <<"5", "0", "0", "0">>, Num(25000), Num(5000), <<3, 2>>)

AddProfiles ==
    {ProfileSafe, ProfileRisky, ProfileEdge, ProfileNoDebt,
     ProfileNoCollateral, ProfileNoThreshold, ProfileNegativeDebt,
     ProfileThresholdAboveOne}

\* positionId arguments of addPosition: z.string().optional()
PositionIdArgs == {None, Some("p1")}

\* alertThreshold arguments: z.number().optional()
ThresholdArgs == {None, Some(Zero), Some(Num(25)), Some(Num(150))}

(***************************************************************************)
(* Position identities.  An identity is a 4-tuple: an explicit positionId  *)
(* s is <<s, "", "", 0>>; the template strings of the source are the       *)
(* tuples of their parts.                                                  *)
(***************************************************************************)
ExplicitId(s) == <<s, "", "", 0>>
\* `${agentMemory.wallet}-${call.data.protocolId}-${Date.now()}`
AutoId(wallet, protocolId, t) == <<wallet, protocolId, "", t>>
\* `${walletAddress}-aave-v3-consolidated-${Date.now()}`
AaveId(wallet, t) == <<wallet, "aave-v3", "consolidated", t>>
\* `${walletAddress}-curve-${collateralSymbol}-crvUSD-${Date.now()}`
CurveId(wallet, sym, t) == <<wallet, "curve", sym, t>>

(***************************************************************************)
(* State.                                                                  *)
(***************************************************************************)
VARIABLES
    agentMemory,   \* the PositionMemory of the context (ctx.agentMemory)
    now,           \* the value Date.now() returns
    op,            \* name of the last action called ("" before the first)
    call,          \* the data of the last call
    res,           \* the value the last call returned
    initialized,   \* TRUE once an initializeMonitoring call has succeeded
    calls,         \* number of action calls issued so far
    prevOp,        \* name of the action called before the last one
    budget,        \* number of action calls the driver issues
    flights,       \* the discoverPositions calls that started their fetches
    args           \* the arguments the context was activated with (state.args)

vars == <<agentMemory, now, op, call, res, initialized, calls, prevOp, budget,
          flights, args>>

\* String.prototype.toLowerCase, on the characters of a string
UpperChars ==
    <<"A", "B", "C", "D", "E", "F", "G", "H", "I", "J", "K", "L", "M",
      "N", "O", "P", "Q", "R", "S", "T", "U", "V", "W", "X", "Y", "Z">>
LowerChars ==
    <<"a", "b", "c", "d", "e", "f", "g", "h", "i", "j", "k", "l", "m",
      "n", "o", "p", "q", "r", "s", "t", "u", "v", "w", "x", "y", "z">>
toLowerCase(chars) ==
    [i \in 1..Len(chars) |->
        IF \E k \in 1..26 : UpperChars[k] = chars[i]
        THEN LowerChars[CHOOSE k \in 1..26 : UpperChars[k] = chars[i]]
        ELSE chars[i]]

\* the strings the model passes as wallets, and their lower-case forms
WalletStrings == {"", W1, W2, W1Lower, WNotAnAddress, WShort}
LowerCased == [w \in WalletStrings |-> toLowerCase(StringChars(w))]

\* positionContext.key: wallet.toLowerCase()
positionContextKey(wallet) == LowerCased[wallet]

\* the key under which the context holds agentMemory
key == positionContextKey(args.wallet)

\* positionContext.create
CreateMemory(wallet, t) ==
    [wallet |-> wallet,
     protocolIds |-> <<>>,
     positions |-> <<>>,
     monitoringState |->
        [healthFactors |-> <<>>,
         liquidationPrices |-> <<>>,
         alertThreshold |-> Num(15),
         alertThresholdHit |-> FALSE,
         lastChecked |-> 0],
     checkedAt |-> 0,
     lastUpdated |-> t]

Init ==
    /\ now = 1
    /\ \E w \in {"", W1} :
        /\ agentMemory = CreateMemory(w, 1)
        /\ args = [wallet |-> w]
    /\ op = ""
    /\ call = <<>>
    /\ res = <<>>
    /\ initialized = FALSE
    /\ calls = 0
    /\ prevOp = ""
    /\ budget = MaxCalls
    /\ flights = <<>>

\* the clock advances between calls
Tick ==
    /\ now < MaxTime
    /\ now' = now + 1
    /\ UNCHANGED <<agentMemory, op, call, res, initialized, calls, prevOp, budget,
                   flights, args>>

\* one more call is issued
CountCall ==
    /\ calls < budget
    /\ calls' = calls + 1
    /\ prevOp' = op
    /\ budget' = budget
    /\ args' = args

\* one more call is issued, and it returns before anything else happens
IssueCall ==
    /\ CountCall
    /\ flights' = flights

(***************************************************************************)
(* monitoringActions: initializeMonitoring, updateWallet,                  *)
(* getMonitoringConfig.                                                    *)
(***************************************************************************)
\* the schema of initializeMonitoringAction: "" when the arguments pass, else
\* the message of the first rule they break
InitializeSchemaError(c) ==
    IF c.wallet = "" THEN "Wallet address is required"
    ELSE IF ~IsEthereumAddress(c.wallet)
    THEN "Wallet address must be a valid Ethereum address (0x...)"
    ELSE IF Len(c.protocolIds) = 0 THEN "At least one protocol ID is required"
    ELSE IF IsSome(c.alertThreshold)
            /\ (Lt(c.alertThreshold[1], Zero) \/ Gt(c.alertThreshold[1], Hundred))
    THEN "Number must be between 0 and 100"
    ELSE ""

\* InitializeMonitoringHandler that keeps the positions and the samples
InitializeMonitoringHandler_KeepsLedger(mem, c, t) ==
    LET alertThreshold ==
            IF IsSome(c.alertThreshold) /\ TruthyNum(c.alertThreshold[1])
            THEN c.alertThreshold[1] ELSE Num(15)
    IN  IF c.wallet = "" \/ Len(c.protocolIds) = 0
        THEN [mem |-> mem,
              res |-> [success |-> FALSE,
                       error |-> "Wallet address and protocol IDs are required"]]
        ELSE [mem |-> [mem EXCEPT
                        !.wallet = c.wallet,
                        !.protocolIds = c.protocolIds,
                        !.monitoringState.alertThreshold = alertThreshold,
                        !.monitoringState.alertThresholdHit = FALSE,
                        !.monitoringState.lastChecked = 0,
                        !.checkedAt = 0,
                        !.lastUpdated = t],
              res |-> [success |-> TRUE,
                       error |-> "",
                       wallet |-> c.wallet,
                       protocolIds |-> c.protocolIds,
                       alertThreshold |-> alertThreshold]]

\* handler of initializeMonitoringAction; c = [wallet, protocolIds, alertThreshold]
InitializeMonitoringHandler(mem, c, t) ==
    LET alertThreshold ==
            IF IsSome(c.alertThreshold) /\ TruthyNum(c.alertThreshold[1])
            THEN c.alertThreshold[1] ELSE Num(15)
    IN  IF c.wallet = "" \/ Len(c.protocolIds) = 0
        THEN [mem |-> mem,
              res |-> [success |-> FALSE,
                       error |-> "Wallet address and protocol IDs are required"]]
        ELSE [mem |-> [mem EXCEPT
                        !.wallet = c.wallet,
                        !.protocolIds = c.protocolIds,
                        !.positions = <<>>,
                        !.monitoringState =
                            [healthFactors |-> <<>>,
                             liquidationPrices |-> <<>>,
                             alertThreshold |-> alertThreshold,
                             alertThresholdHit |-> FALSE,
                             lastChecked |-> 0],
                        !.checkedAt = 0,
                        !.lastUpdated = t],
              res |-> [success |-> TRUE,
                       error |-> "",
                       wallet |-> c.wallet,
                       protocolIds |-> c.protocolIds,
                       alertThreshold |-> alertThreshold]]

InitializeMonitoring ==
    \E c \in InitializeArgs :
        LET e == InitializeSchemaError(c)
            r == IF e # ""
                 THEN [mem |-> agentMemory, res |-> [success |-> FALSE, error |-> e]]
                 ELSE InitializeMonitoringHandler(agentMemory, c, now)
        IN  /\ IssueCall
            /\ agentMemory' = r.mem
            /\ op' = "initializeMonitoring"
            /\ call' = c
            /\ res' = r.res
            /\ initialized' = (initialized \/ r.res.success)
            /\ UNCHANGED now

\* the schema of updateWalletAction
UpdateWalletSchemaError(c) ==
    IF c.wallet = "" THEN "Wallet address is required"
    ELSE IF ~IsEthereumAddress(c.wallet)
    THEN "Wallet address must be a valid Ethereum address (0x...)"
    ELSE ""

\* handler of updateWalletAction; c = [wallet]
UpdateWalletHandler(mem, c, t) ==
    IF c.wallet = ""
    THEN [mem |-> mem,
          res |-> [success |-> FALSE, error |-> "Wallet address is required"]]
    ELSE [mem |-> [mem EXCEPT
                    !.wallet = c.wallet,
                    !.positions = <<>>,
                    !.monitoringState =
                        [healthFactors |-> <<>>,
                         liquidationPrices |-> <<>>,
                         alertThresholdHit |-> FALSE,
                         alertThreshold |->
                            IF TruthyNum(mem.monitoringState.alertThreshold)
                            THEN mem.monitoringState.alertThreshold
                            ELSE Num(15),
                         lastChecked |-> 0],
                    !.checkedAt = 0,
                    !.lastUpdated = t],
          res |-> [success |-> TRUE, error |-> "", wallet |-> c.wallet]]

UpdateWallet ==
    \E c \in UpdateWalletArgs :
        LET e == UpdateWalletSchemaError(c)
            r == IF e # ""
                 THEN [mem |-> agentMemory, res |-> [success |-> FALSE, error |-> e]]
                 ELSE UpdateWalletHandler(agentMemory, c, now)
        IN  /\ IssueCall
            /\ agentMemory' = r.mem
            /\ op' = "updateWallet"
            /\ call' = c
            /\ res' = r.res
            /\ UNCHANGED <<now, initialized>>

\* handler of getMonitoringConfigAction
GetMonitoringConfigHandler(mem) ==
    [wallet |-> IF mem.wallet # "" THEN mem.wallet ELSE "Not set",
     protocolIds |-> mem.protocolIds,
     alertThreshold |->
        IF TruthyNum(mem.monitoringState.alertThreshold)
        THEN mem.monitoringState.alertThreshold ELSE Num(15),
     positionsCount |-> Len(mem.positions),
     lastChecked |-> mem.monitoringState.lastChecked,
     alertThresholdHit |-> mem.monitoringState.alertThresholdHit]

GetMonitoringConfig ==
    /\ IssueCall
    /\ op' = "getMonitoringConfig"
    /\ call' = <<>>
    /\ res' = GetMonitoringConfigHandler(agentMemory)
    /\ UNCHANGED <<agentMemory, now, initialized>>

(***************************************************************************)
(* Number.prototype.toFixed: the decimal string of x with `digits` digits  *)
(* after the point, rounded half up; "NaN" and "Infinity" for the          *)
(* non-finite numbers.                                                     *)
(***************************************************************************)
DigitChar(k) == <<"0", "1", "2", "3", "4", "5", "6", "7", "8", "9">>[k + 1]

\* the decimal digits of the natural number n
RECURSIVE NatChars(_)
NatChars(n) ==
    IF n < 10 THEN <<DigitChar(n)>>
    ELSE Append(NatChars(n \div 10), DigitChar(n % 10))

\* the last k decimal digits of n, zero-padded
RECURSIVE PadChars(_, _)
PadChars(n, k) ==
    IF k = 0 THEN <<>>
    ELSE Append(PadChars(n \div 10, k - 1), DigitChar(n % 10))

toFixed(x, digits) ==
    IF IsNaN(x) THEN NaNChars
    ELSE IF ~isFinite(x)
    THEN (IF x[1] < 0 THEN <<"-">> ELSE <<>>) \o InfinityChars
    ELSE LET n == Abs(x[1])
             scale == Pow10(digits)
             rounded == (2 * (n % x[2]) * scale + x[2]) \div (2 * x[2])
             ip == (n \div x[2]) + (IF rounded = scale THEN 1 ELSE 0)
             fp == IF rounded = scale THEN 0 ELSE rounded
         IN  (IF x[1] < 0 THEN <<"-">> ELSE <<>>)
                \o NatChars(ip)
                \o (IF digits = 0 THEN <<>> ELSE <<".">> \o PadChars(fp, digits))

(***************************************************************************)
(* Price oracle: getTokenPrice.  A lookup is what the CoinGecko request    *)
(* answers: ok = FALSE when the request fails or the response is not ok,   *)
(* usd = the price of the response (0 when the token is missing).          *)
(***************************************************************************)
PriceLookup(ok, usd) == [ok |-> ok, usd |-> usd]
PriceFound(usd) == PriceLookup(TRUE, usd)
PriceFailed == PriceLookup(FALSE, Zero)

getTokenPrice(lookup) ==
    IF ~lookup.ok THEN Zero
    ELSE IF TruthyNum(lookup.usd) THEN lookup.usd ELSE Zero

(***************************************************************************)
(* Protocol adapters.  What a protocol source answers is an input of the   *)
(* model.  An adapter yields an outcome: threw = TRUE when the fetcher     *)
(* throws before its try block, else the positions it returns.  A          *)
(* reverted contract read is caught by the fetcher and yields no position. *)
(***************************************************************************)
MkPosition(id, protocolId, collateralAsset, debtAsset, pr) ==
    [id |-> id,
     protocolId |-> protocolId,
     collateralAsset |-> collateralAsset,
     debtAsset |-> debtAsset,
     collateralAmount |-> pr.collateralAmount,
     debtAmount |-> pr.debtAmount,
     collateralValue |-> pr.collateralValue,
     debtValue |-> pr.debtValue,
     liquidationThreshold |-> pr.liquidationThreshold]

Outcome(threw, positions) == [threw |-> threw, positions |-> positions]

\* an answer of the Aave pool: getUserAccountData and the two price lookups
AaveAnswer(throws, reverted, totalCollateral, totalDebt, bps, eth, usdc) ==
    [throws |-> throws,
     reverted |-> reverted,
     totalCollateral |-> totalCollateral,
     totalDebt |-> totalDebt,
     liquidationThresholdBps |-> bps,
     eth |-> eth,
     usdc |-> usdc]

\* bpsToPercent
bpsToPercent(bps) == Div(Num(bps), Hundred)

\* the amounts, values and threshold fetchAavePositions derives from the
\* account data and the two prices
AaveProfileOf(answer) ==
    LET estimatedCollateralPrice == getTokenPrice(answer.eth)
        estimatedDebtPrice == getTokenPrice(answer.usdc)
        estimatedCollateralAmount ==
            Div(answer.totalCollateral, estimatedCollateralPrice)
        estimatedDebtAmount == Div(answer.totalDebt, estimatedDebtPrice)
        liquidationThresholdDecimal ==
            Div(bpsToPercent(answer.liquidationThresholdBps), Hundred)
    IN  [collateralAmount |-> toFixed(estimatedCollateralAmount, 6),
         debtAmount |-> toFixed(estimatedDebtAmount, 6),
         collateralValue |-> answer.totalCollateral,
         debtValue |-> answer.totalDebt,
         liquidationThreshold |->
            IF TruthyNum(liquidationThresholdDecimal)
            THEN liquidationThresholdDecimal ELSE <<4, 5>>]

\* the answer of one Curve controller: user_state (collateral and debt,
\* formatted), the collateral token's symbol and the two price lookups
ControllerAnswer(reverted, collateral, debt, symbol, collateralPrice, debtPrice) ==
    [reverted |-> reverted,
     collateral |-> collateral,
     debt |-> debt,
     symbol |-> symbol,
     collateralPrice |-> collateralPrice,
     debtPrice |-> debtPrice]

\* an answer of Curve: one answer for each controller of CURVE_CONTROLLERS
CurveAnswer(throws, reverted, controllers) ==
    [throws |-> throws, reverted |-> reverted, controllers |-> controllers]

\* the values one pass of the loop over the controllers derives from the
\* controller's state and the two prices
ControllerProfileOf(ca) ==
    LET collateralPrice == getTokenPrice(ca.collateralPrice)
        debtPrice == getTokenPrice(ca.debtPrice)
    IN  [collateralAmount |-> ca.collateral,
         debtAmount |-> ca.debt,
         collateralValue |-> Mul(parseFloat(ca.collateral), collateralPrice),
         debtValue |-> Mul(parseFloat(ca.debt), debtPrice),
         liquidationThreshold |-> <<87, 100>>]

(***************************************************************************)
(* The answers of the sources the model draws from.                        *)
(***************************************************************************)
EthPrice == PriceFound(Num(2500))
UsdPrice == PriceFound(One)

\* collateral 25000, debt 5000, threshold 80%
AaveSafe == AaveAnswer(FALSE, FALSE, Num(25000), Num(5000), 8000, EthPrice, UsdPrice)
\* collateral 25000, debt 22000
AaveRisky == AaveAnswer(FALSE, FALSE, Num(25000), Num(22000), 8000, EthPrice, UsdPrice)
AaveNoDebt == AaveAnswer(FALSE, FALSE, Num(25000), Zero, 8000, EthPrice, UsdPrice)
\* the ETH price lookup fails
AaveEthPriceFailed ==
    AaveAnswer(FALSE, FALSE, Num(25000), Num(5000), 8000, PriceFailed, UsdPrice)
\* the USDC price lookup fails
AaveUsdcPriceFailed ==
    AaveAnswer(FALSE, FALSE, Num(25000), Num(5000), 8000, EthPrice, PriceFailed)
AaveThrows == AaveAnswer(TRUE, FALSE, Zero, Zero, 0, PriceFailed, PriceFailed)

NoController == ControllerAnswer(TRUE, <<"0">>, <<"0">>, "", PriceFailed, PriceFailed)
\* 10 WETH against 16000 crvUSD
WethController(collateralPrice, debtPrice) ==
    ControllerAnswer(FALSE, <<"1", "0">>, <<"1", "6", "0", "0", "0">>, "WETH",
                     collateralPrice, debtPrice)

CurveEdge ==
    CurveAnswer(FALSE, FALSE,
                <<WethController(EthPrice, UsdPrice), NoController, NoController>>)
CurveNoPosition ==
    CurveAnswer(FALSE, FALSE, <<NoController, NoController, NoController>>)
\* the WETH price lookup fails
CurveCollateralPriceFailed ==
    CurveAnswer(FALSE, FALSE,
                <<WethController(PriceFailed, UsdPrice), NoController, NoController>>)
\* the crvUSD price lookup fails
CurveDebtPriceFailed ==
    CurveAnswer(FALSE, FALSE,
                <<WethController(EthPrice, PriceFailed), NoController, NoController>>)

\* no source is asked for an unknown protocol
NoSource == [throws |-> FALSE]

AaveAnswers ==
    {AaveNoDebt, AaveSafe, AaveRisky, AaveEthPriceFailed, AaveUsdcPriceFailed,
     AaveThrows}
ControllerAnswers ==
    {NoController} \cup
    {WethController(c, d) : c \in {EthPrice, PriceFailed}, d \in {UsdPrice, PriceFailed}}

\* AaveProfileOf and ControllerProfileOf, tabulated over the answers above
AaveProfiles == [answer \in AaveAnswers |-> AaveProfileOf(answer)]
ControllerProfiles == [ca \in ControllerAnswers |-> ControllerProfileOf(ca)]

fetchAavePositions(answer, walletAddress, t) ==
    IF answer.throws THEN Outcome(TRUE, <<>>)
    ELSE IF answer.reverted THEN Outcome(FALSE, <<>>)
    ELSE IF answer.totalDebt = Zero THEN Outcome(FALSE, <<>>)
    ELSE Outcome(FALSE,
            <<MkPosition(AaveId(walletAddress, t), "aave-v3", "MIXED", "MIXED",
                         AaveProfiles[answer])>>)

\* one pass of the loop over the controllers
CurveControllerPositions(ca, walletAddress, t) ==
    IF ca.reverted THEN <<>>
    ELSE IF ca.debt = <<"0">> THEN <<>>
    ELSE IF ca.collateral = <<"0">> THEN <<>>
    ELSE <<MkPosition(CurveId(walletAddress, ca.symbol, t), "curve", ca.symbol,
                      "crvUSD", ControllerProfiles[ca])>>

RECURSIVE CurvePositionsOf(_, _, _)
CurvePositionsOf(controllers, walletAddress, t) ==
    IF controllers = <<>> THEN <<>>
    ELSE CurveControllerPositions(Head(controllers), walletAddress, t)
            \o CurvePositionsOf(Tail(controllers), walletAddress, t)

fetchCurvePositions(answer, walletAddress, t) ==
    IF answer.throws THEN Outcome(TRUE, <<>>)
    ELSE IF answer.reverted THEN Outcome(FALSE, <<>>)
    ELSE Outcome(FALSE, CurvePositionsOf(answer.controllers, walletAddress, t))

(***************************************************************************)
(* Protocol aggregator: fetchPositionsFromProtocol, fetchAllPositions.     *)
(***************************************************************************)
fetchPositionsFromProtocol(protocolId, answer, walletAddress, t) ==
    CASE protocolId = "aave-v3" -> fetchAavePositions(answer, walletAddress, t)
      [] protocolId = "curve" -> fetchCurvePositions(answer, walletAddress, t)
      [] OTHER -> Outcome(FALSE, <<>>)

\* CatchFetch that also drops what a fetch returned
CatchFetch_DropsAll(outcome) == <<>>

\* .then(positions => positions).catch(error => [])
CatchFetch(outcome) ==
    IF outcome.threw THEN <<>> ELSE outcome.positions

\* PromiseAll that yields the values in the order the promises settled
PromiseAll_SettleOrder(results, order) ==
    [j \in 1..Len(order) |-> results[order[j]]]

\* Promise.all: the values in the order of the promises, whatever the order
\* (order) in which they settled
PromiseAll(results, order) == results

\* for (const positions of results) allPositions.push(...positions)
RECURSIVE Flatten(_)
Flatten(results) ==
    IF results = <<>> THEN <<>>
    ELSE Head(results) \o Flatten(Tail(results))

\* the promise of one protocol, settled at time t with the source's answer
FetchPromise(protocolId, answer, walletAddress, t) ==
    CatchFetch(fetchPositionsFromProtocol(protocolId, answer, walletAddress, t))

\* answers[i] is what the source of protocolIds[i] answers, ts[i] the time
\* at which its fetch builds the positions, order the order of settling
fetchAllPositions(protocolIds, answers, walletAddress, ts, order) ==
    Flatten(PromiseAll(
        [i \in 1..Len(protocolIds) |->
            FetchPromise(protocolIds[i], answers[i], walletAddress, ts[i])],
        order))

\* the answers a call-by-call driver sees
ProtocolAnswers(protocolId) ==
    CASE protocolId = "aave-v3" -> {AaveNoDebt, AaveSafe, AaveRisky}
      [] protocolId = "curve" -> {CurveNoPosition, CurveEdge}
      [] OTHER -> {NoSource}

\* the sequences of answers, one for each protocol of protocolIds
RECURSIVE AnswersFor(_)
AnswersFor(protocolIds) ==
    IF protocolIds = <<>> THEN {<<>>}
    ELSE {<<a>> \o rest :
            a \in ProtocolAnswers(Head(protocolIds)),
            rest \in AnswersFor(Tail(protocolIds))}

(***************************************************************************)
(* positionMonitoringActions.                                              *)
(***************************************************************************)
\* Fail that empties the positions of the ledger
Fail_DropsPositions(mem, msg) ==
    [mem |-> [mem EXCEPT !.positions = <<>>],
     res |-> [success |-> FALSE, error |-> msg]]

\* a failure return: the handler returns before it writes
Fail(mem, msg) == [mem |-> mem, res |-> [success |-> FALSE, error |-> msg]]

\* handler of discoverPositionsAction; c = [wallet, protocolIds] (both
\* optional), fetched = what fetchAllPositions returned
DiscoverFinalWallet(mem, c) ==
    IF IsSome(c.wallet) /\ c.wallet[1] # "" THEN c.wallet[1] ELSE mem.wallet

DiscoverFinalProtocolIds(mem, c) ==
    IF IsSome(c.protocolIds) THEN c.protocolIds[1] ELSE mem.protocolIds

DiscoverPositionsHandler(mem, c, fetched, t) ==
    [mem |-> [mem EXCEPT !.positions = fetched, !.lastUpdated = t],
     res |-> [success |-> TRUE,
              error |-> "",
              positionsFound |-> Len(fetched),
              positions |->
                [i \in 1..Len(fetched) |->
                    [id |-> fetched[i].id,
                     protocolId |-> fetched[i].protocolId,
                     collateralAsset |-> fetched[i].collateralAsset,
                     debtAsset |-> fetched[i].debtAsset]]]]

DiscoverPositions ==
    \E c \in DiscoverArgs :
        LET finalWallet == DiscoverFinalWallet(agentMemory, c)
            finalProtocolIds == DiscoverFinalProtocolIds(agentMemory, c)
        IN  /\ IssueCall
            /\ op' = "discoverPositions"
            /\ call' = c
            /\ UNCHANGED <<now, initialized>>
            /\ IF finalWallet = ""
               THEN /\ agentMemory' = agentMemory
                    /\ res' = [success |-> FALSE,
                               error |-> "Wallet address not provided. Use initializeMonitoring first or provide wallet parameter."]
               ELSE IF Len(finalProtocolIds) = 0
               THEN /\ agentMemory' = agentMemory
                    /\ res' = [success |-> FALSE,
                               error |-> "No protocol IDs provided. Use initializeMonitoring first or provide protocolIds parameter."]
               ELSE \E answers \in AnswersFor(finalProtocolIds) :
                        LET n == Len(finalProtocolIds)
                            fetched ==
                                fetchAllPositions(finalProtocolIds, answers, finalWallet,
                                                  [i \in 1..n |-> now],
                                                  [i \in 1..n |-> i])
                            r == DiscoverPositionsHandler(agentMemory, c, fetched, now)
                        IN  /\ agentMemory' = r.mem
                            /\ res' = r.res

\* handler of addPositionAction; c = the position fields and an optional
\* positionId
AddPositionId(mem, c, t) ==
    IF IsSome(c.positionId) /\ c.positionId[1] # ""
    THEN ExplicitId(c.positionId[1])
    ELSE AutoId(mem.wallet, c.protocolId, t)

\* the schema of addPositionAction: "" when the arguments pass
AddPositionSchemaError(c) ==
    IF Lt(c.liquidationThreshold, Zero)
    THEN "Number must be greater than or equal to 0"
    ELSE IF Gt(c.liquidationThreshold, One)
    THEN "Number must be less than or equal to 1"
    ELSE ""

AddPositionHandler(mem, c, t) ==
    IF mem.wallet = ""
    THEN Fail(mem, "Wallet not configured. Use initializeMonitoring first.")
    ELSE
        LET positionId == AddPositionId(mem, c, t)
            existingIndex == FindPositionIndex(mem.positions, positionId)
            newPosition ==
                MkPosition(positionId, c.protocolId, c.collateralAsset, c.debtAsset, c)
        IN  [mem |-> [mem EXCEPT
                        !.positions =
                            IF existingIndex > 0
                            THEN [mem.positions EXCEPT ![existingIndex] = newPosition]
                            ELSE Append(mem.positions, newPosition),
                        !.lastUpdated = t],
             res |-> [success |-> TRUE, error |-> "", positionId |-> positionId]]

AddPosition ==
    \E pr \in AddProfiles, pid \in PositionIdArgs :
        LET c == [protocolId |-> "aave-v3",
                  collateralAsset |-> "ETH",
                  debtAsset |-> "USDC",
                  collateralAmount |-> pr.collateralAmount,
                  debtAmount |-> pr.debtAmount,
                  collateralValue |-> pr.collateralValue,
                  debtValue |-> pr.debtValue,
                  liquidationThreshold |-> pr.liquidationThreshold,
                  positionId |-> pid]
            e == AddPositionSchemaError(c)
            r == IF e # ""
                 THEN Fail(agentMemory, e)
                 ELSE AddPositionHandler(agentMemory, c, now)
        IN  /\ IssueCall
            /\ Len(r.mem.positions) <= MaxPositions
            /\ agentMemory' = r.mem
            /\ op' = "addPosition"
            /\ call' = c
            /\ res' = r.res
            /\ UNCHANGED <<now, initialized>>

\* positionsToCheck of checkHealthFactor, calculateLiquidationPrice and
\* calculateBuffer; c = [positionId] (optional)
PositionsToCheck(mem, c) ==
    IF IsSome(c.positionId) /\ c.positionId[1] # ""
    THEN FilterById(mem.positions, ExplicitId(c.positionId[1]))
    ELSE mem.positions

\* CheckHealthFactorOf with the liquidation threshold left out
CheckHealthFactorOf_NoThreshold(position) ==
    IF Gt(position.debtValue, Zero)
    THEN Div(position.collateralValue, position.debtValue)
    ELSE Infinity

\* health factor as checkHealthFactorAction computes it
CheckHealthFactorOf(position) ==
    IF Gt(position.debtValue, Zero)
    THEN Div(Mul(position.collateralValue, position.liquidationThreshold),
             position.debtValue)
    ELSE Infinity

CheckHealthFactorHandler(mem, c, t) ==
    IF mem.wallet = "" \/ Len(mem.protocolIds) = 0
    THEN Fail(mem, "Wallet and protocol IDs must be configured first. Use initializeMonitoring action.")
    ELSE IF Len(mem.positions) = 0
    THEN Fail(mem, "No positions found. Positions need to be discovered first.")
    ELSE
        LET positionsToCheck == PositionsToCheck(mem, c)
            healthFactors ==
                [i \in 1..Len(positionsToCheck) |->
                    [positionId |-> positionsToCheck[i].id,
                     healthFactor |-> CheckHealthFactorOf(positionsToCheck[i]),
                     timestamp |-> t]]
        IN  [mem |-> [mem EXCEPT
                        !.monitoringState.healthFactors =
                            UpsertAll(mem.monitoringState.healthFactors, healthFactors),
                        !.monitoringState.lastChecked = t,
                        !.checkedAt = t,
                        !.lastUpdated = t],
             res |-> [success |-> TRUE,
                      error |-> "",
                      healthFactors |->
                        [i \in 1..Len(healthFactors) |->
                            [positionId |-> healthFactors[i].positionId,
                             healthFactor |-> healthFactors[i].healthFactor]]]]

CheckHealthFactor ==
    \E pid \in PositionIdArgs :
        LET c == [positionId |-> pid]
            r == CheckHealthFactorHandler(agentMemory, c, now)
        IN  /\ IssueCall
            /\ agentMemory' = r.mem
            /\ op' = "checkHealthFactor"
            /\ call' = c
            /\ res' = r.res
            /\ UNCHANGED <<now, initialized>>

\* current price and liquidation price as calculateLiquidationPriceAction
\* computes them
CalcCurrentPriceOf(position) ==
    LET collateralAmount == parseFloat(position.collateralAmount)
    IN  IF Gt(collateralAmount, Zero)
        THEN Div(position.collateralValue, collateralAmount)
        ELSE Zero

\* CalcLiqPriceOf without the test of the liquidation threshold
CalcLiqPriceOf_ThresholdUntested(position) ==
    LET collateralAmount == parseFloat(position.collateralAmount)
    IN  IF Gt(collateralAmount, Zero)
        THEN Div(position.debtValue,
                 Mul(collateralAmount, position.liquidationThreshold))
        ELSE Zero

CalcLiqPriceOf(position) ==
    LET collateralAmount == parseFloat(position.collateralAmount)
    IN  IF Gt(collateralAmount, Zero) /\ Gt(position.liquidationThreshold, Zero)
        THEN Div(position.debtValue,
                 Mul(collateralAmount, position.liquidationThreshold))
        ELSE Zero

\* priceBuffer of the result of calculateLiquidationPrice
PriceBufferOf(lp) ==
    IF Gt(lp.currentPrice, Zero)
    THEN Mul(Div(Sub(lp.currentPrice, lp.liqPrice), lp.currentPrice), Hundred)
    ELSE Zero

CalculateLiquidationPriceHandler(mem, c, t) ==
    IF Len(mem.positions) = 0
    THEN Fail(mem, "No positions found.")
    ELSE
        LET positionsToCheck == PositionsToCheck(mem, c)
            liquidationPrices ==
                [i \in 1..Len(positionsToCheck) |->
                    [positionId |-> positionsToCheck[i].id,
                     liqPrice |-> CalcLiqPriceOf(positionsToCheck[i]),
                     currentPrice |-> CalcCurrentPriceOf(positionsToCheck[i])]]
        IN  [mem |-> [mem EXCEPT
                        !.monitoringState.liquidationPrices =
                            UpsertAll(mem.monitoringState.liquidationPrices,
                                      liquidationPrices),
                        !.lastUpdated = t],
             res |-> [success |-> TRUE,
                      error |-> "",
                      liquidationPrices |->
                        [i \in 1..Len(liquidationPrices) |->
                            [positionId |-> liquidationPrices[i].positionId,
                             liqPrice |-> liquidationPrices[i].liqPrice,
                             currentPrice |-> liquidationPrices[i].currentPrice,
                             priceBuffer |-> PriceBufferOf(liquidationPrices[i])]]]]

CalculateLiquidationPrice ==
    \E pid \in PositionIdArgs :
        LET c == [positionId |-> pid]
            r == CalculateLiquidationPriceHandler(agentMemory, c, now)
        IN  /\ IssueCall
            /\ agentMemory' = r.mem
            /\ op' = "calculateLiquidationPrice"
            /\ call' = c
            /\ res' = r.res
            /\ UNCHANGED <<now, initialized>>

\* healthFactors.find(hf => hf.positionId === id): the sample, or None
FindSample(samples, id) ==
    LET idx == FindIndexById(samples, id)
    IN  IF idx > 0 THEN Some(samples[idx]) ELSE None

\* CalcBufferOf without the floor at 0
CalcBufferOf_Unclamped(hf) ==
    IF IsSome(hf) /\ Gt(hf[1].healthFactor, Zero)
    THEN Mul(Sub(hf[1].healthFactor, One), Hundred)
    ELSE Zero

\* bufferPercent as calculateBufferAction computes it from the sample found
CalcBufferOf(hf) ==
    IF IsSome(hf) /\ Gt(hf[1].healthFactor, Zero)
    THEN MathMax(Zero, Mul(Sub(hf[1].healthFactor, One), Hundred))
    ELSE Zero

\* hf?.healthFactor || 0
CalcBufferHealthFactorOf(hf) ==
    IF IsSome(hf) /\ TruthyNum(hf[1].healthFactor)
    THEN hf[1].healthFactor ELSE Zero

CalculateBufferHandler(mem, c, t) ==
    IF Len(mem.monitoringState.healthFactors) = 0
    THEN Fail(mem, "Health factors not calculated. Run checkHealthFactor first.")
    ELSE
        LET positionsToCheck == PositionsToCheck(mem, c)
            bufferResults ==
                [i \in 1..Len(positionsToCheck) |->
                    LET hf == FindSample(mem.monitoringState.healthFactors,
                                         positionsToCheck[i].id)
                    IN  [positionId |-> positionsToCheck[i].id,
                         bufferPercent |-> CalcBufferOf(hf),
                         healthFactor |-> CalcBufferHealthFactorOf(hf)]]
        IN  [mem |-> [mem EXCEPT !.lastUpdated = t],
             res |-> [success |-> TRUE, error |-> "", buffers |-> bufferResults]]

CalculateBuffer ==
    \E pid \in PositionIdArgs :
        LET c == [positionId |-> pid]
            r == CalculateBufferHandler(agentMemory, c, now)
        IN  /\ IssueCall
            /\ agentMemory' = r.mem
            /\ op' = "calculateBuffer"
            /\ call' = c
            /\ res' = r.res
            /\ UNCHANGED <<now, initialized>>

\* threshold of checkAlertThresholdAction:
\* call.alertThreshold || call.data?.alertThreshold || stored
AlertThresholdOf(mem, c) ==
    IF IsSome(c.alertThreshold) /\ TruthyNum(c.alertThreshold[1])
    THEN c.alertThreshold[1]
    ELSE mem.monitoringState.alertThreshold

\* bufferPercent as checkAlertThresholdAction computes it
AlertBufferOf(healthFactor) == Mul(Sub(healthFactor, One), Hundred)

\* the comparison of checkAlertThresholdAction
AlertAtRisk(bufferPercent, threshold) == Lt(bufferPercent, threshold)

\* healthFactors.forEach: the at-risk entries, in the order of the samples
RECURSIVE AtRiskPositions(_, _, _)
AtRiskPositions(samples, positions, threshold) ==
    IF samples = <<>> THEN <<>>
    ELSE LET hf == Head(samples)
             rest == AtRiskPositions(Tail(samples), positions, threshold)
             bufferPercent == AlertBufferOf(hf.healthFactor)
         IN  IF FindPositionIndex(positions, hf.positionId) = 0
             THEN rest
             ELSE IF AlertAtRisk(bufferPercent, threshold)
             THEN <<[positionId |-> hf.positionId,
                     bufferPercent |-> bufferPercent,
                     healthFactor |-> hf.healthFactor]>> \o rest
             ELSE rest

CheckAlertThresholdHandler(mem, c, t) ==
    LET threshold == AlertThresholdOf(mem, c)
    IN  IF Len(mem.monitoringState.healthFactors) = 0
        THEN Fail(mem, "Health factors not calculated. Run checkHealthFactor first.")
        ELSE
            LET atRiskPositions ==
                    AtRiskPositions(mem.monitoringState.healthFactors,
                                    mem.positions, threshold)
            IN  [mem |-> [mem EXCEPT
                            !.monitoringState.alertThresholdHit =
                                Len(atRiskPositions) > 0,
                            !.monitoringState.alertThreshold = threshold,
                            !.lastUpdated = t],
                 res |-> [success |-> TRUE,
                          error |-> "",
                          alertThresholdHit |-> Len(atRiskPositions) > 0,
                          threshold |-> threshold,
                          atRiskPositions |-> atRiskPositions]]

CheckAlertThreshold ==
    \E th \in ThresholdArgs :
        LET c == [alertThreshold |-> th]
            r == CheckAlertThresholdHandler(agentMemory, c, now)
        IN  /\ IssueCall
            /\ agentMemory' = r.mem
            /\ op' = "checkAlertThreshold"
            /\ call' = c
            /\ res' = r.res
            /\ UNCHANGED <<now, initialized>>

\* MonitorHealthFactorOf with 0 instead of Infinity for a position without debt
MonitorHealthFactorOf_NoDebtZero(position) ==
    IF Gt(position.debtValue, Zero)
    THEN Div(Mul(position.collateralValue, position.liquidationThreshold),
             position.debtValue)
    ELSE Zero

\* health factor, prices and buffer as monitorPositionsAction computes them
MonitorHealthFactorOf(position) ==
    IF Gt(position.debtValue, Zero)
    THEN Div(Mul(position.collateralValue, position.liquidationThreshold),
             position.debtValue)
    ELSE Infinity

\* MonitorCurrentPriceOf with the collateral value taken as the price
MonitorCurrentPriceOf_Value(position) ==
    LET collateralAmount == parseFloat(position.collateralAmount)
    IN  IF Gt(collateralAmount, Zero)
        THEN position.collateralValue
        ELSE Zero

MonitorCurrentPriceOf(position) ==
    LET collateralAmount == parseFloat(position.collateralAmount)
    IN  IF Gt(collateralAmount, Zero)
        THEN Div(position.collateralValue, collateralAmount)
        ELSE Zero

MonitorLiqPriceOf(position) ==
    LET collateralAmount == parseFloat(position.collateralAmount)
    IN  IF Gt(collateralAmount, Zero) /\ Gt(position.liquidationThreshold, Zero)
        THEN Div(position.debtValue,
                 Mul(collateralAmount, position.liquidationThreshold))
        ELSE Zero

MonitorBufferOf(hf) ==
    MathMax(Zero,
            IF Gt(hf, Zero) /\ ~isFinite(hf)
            THEN Infinity
            ELSE Mul(Sub(hf, One), Hundred))

\* threshold of monitorPositionsAction: call.data.alertThreshold ?? stored
MonitorThresholdOf(mem, c) ==
    IF IsSome(c.alertThreshold)
    THEN c.alertThreshold[1]
    ELSE mem.monitoringState.alertThreshold

\* MonitorAlertHit with <= for <
MonitorAlertHit_AtOrBelow(bufferPercents, threshold) ==
    \E i \in 1..Len(bufferPercents) : ~Gt(bufferPercents[i], threshold)

\* bufferPercents.some(buffer => buffer < threshold)
MonitorAlertHit(bufferPercents, threshold) ==
    \E i \in 1..Len(bufferPercents) : Lt(bufferPercents[i], threshold)

\* MonitorNotInitialized without the test of the protocol ids
MonitorNotInitialized_WalletOnly(mem) == mem.wallet = ""

\* !agentMemory.wallet || agentMemory.protocolIds.length === 0
MonitorNotInitialized(mem) == mem.wallet = "" \/ Len(mem.protocolIds) = 0

\* MonitorReportOf that lists the positions last to first
MonitorReportOf_Reversed(positions, healthFactors, liquidationPrices, bufferPercents) ==
    [index \in 1..Len(positions) |->
        [positionId |-> positions[Len(positions) + 1 - index].id,
         protocolId |-> positions[Len(positions) + 1 - index].protocolId,
         collateralAsset |-> positions[Len(positions) + 1 - index].collateralAsset,
         debtAsset |-> positions[Len(positions) + 1 - index].debtAsset,
         healthFactor |-> healthFactors[index],
         liqPrice |-> liquidationPrices[index],
         bufferPercent |-> bufferPercents[index]]]

\* the positions array of the result: agentMemory.positions.map((pos, index) => ...)
MonitorReportOf(positions, healthFactors, liquidationPrices, bufferPercents) ==
    [index \in 1..Len(positions) |->
        [positionId |-> positions[index].id,
         protocolId |-> positions[index].protocolId,
         collateralAsset |-> positions[index].collateralAsset,
         debtAsset |-> positions[index].debtAsset,
         healthFactor |-> healthFactors[index],
         liqPrice |-> liquidationPrices[index],
         bufferPercent |-> bufferPercents[index]]]

MonitorPositionsHandler(mem, c, t) ==
    IF MonitorNotInitialized(mem)
    THEN Fail(mem, "Monitoring not initialized. Use initializeMonitoring first.")
    ELSE IF Len(mem.positions) = 0
    THEN Fail(mem, "No positions found. Positions need to be discovered first.")
    ELSE
        LET n == Len(mem.positions)
            healthFactors ==
                [i \in 1..n |-> MonitorHealthFactorOf(mem.positions[i])]
            hfEntries ==
                [i \in 1..n |->
                    [positionId |-> mem.positions[i].id,
                     healthFactor |-> healthFactors[i],
                     timestamp |-> t]]
            liquidationPrices ==
                [i \in 1..n |-> MonitorLiqPriceOf(mem.positions[i])]
            lpEntries ==
                [i \in 1..n |->
                    [positionId |-> mem.positions[i].id,
                     liqPrice |-> liquidationPrices[i],
                     currentPrice |-> MonitorCurrentPriceOf(mem.positions[i])]]
            bufferPercents ==
                [i \in 1..n |-> MonitorBufferOf(healthFactors[i])]
            threshold == MonitorThresholdOf(mem, c)
            alertThresholdHit == MonitorAlertHit(bufferPercents, threshold)
        IN  [mem |-> [mem EXCEPT
                        !.monitoringState =
                            [healthFactors |->
                                UpsertAll(mem.monitoringState.healthFactors, hfEntries),
                             liquidationPrices |->
                                UpsertAll(mem.monitoringState.liquidationPrices,
                                          lpEntries),
                             alertThreshold |-> threshold,
                             alertThresholdHit |-> alertThresholdHit,
                             lastChecked |-> t],
                        !.checkedAt = t,
                        !.lastUpdated = t],
             res |-> [success |-> TRUE,
                      error |-> "",
                      health_factor |-> healthFactors,
                      liq_price |-> liquidationPrices,
                      buffer_percent |-> bufferPercents,
                      alert_threshold_hit |-> alertThresholdHit,
                      positions |->
                        MonitorReportOf(mem.positions, healthFactors,
                                        liquidationPrices, bufferPercents)]]

MonitorPositions ==
    \E th \in ThresholdArgs :
        LET c == [alertThreshold |-> th]
            r == MonitorPositionsHandler(agentMemory, c, now)
        IN  /\ IssueCall
            /\ agentMemory' = r.mem
            /\ op' = "monitorPositions"
            /\ call' = c
            /\ res' = r.res
            /\ UNCHANGED <<now, initialized>>

(***************************************************************************)
(* The agent: one driver calls the actions one at a time.                  *)
(***************************************************************************)
Next ==
    \/ Tick
    \/ InitializeMonitoring
    \/ UpdateWallet
    \/ GetMonitoringConfig
    \/ DiscoverPositions
    \/ AddPosition
    \/ CheckHealthFactor
    \/ CalculateLiquidationPrice
    \/ CalculateBuffer
    \/ CheckAlertThreshold
    \/ MonitorPositions

Spec == Init /\ [][Next]_vars

(***************************************************************************)
(* The same agent with a driver that never enters a position by hand and   *)
(* never changes the wallet: it initializes, discovers and evaluates, at   *)
(* one instant, for MaxCycleCalls calls.  Every behaviour of SpecCycle is  *)
(* a behaviour of the agent.                                               *)
(***************************************************************************)
InitCycle ==
    /\ now = 1
    /\ agentMemory = CreateMemory("", 1)
    /\ op = ""
    /\ call = <<>>
    /\ res = <<>>
    /\ initialized = FALSE
    /\ calls = 0
    /\ prevOp = ""
    /\ budget = MaxCycleCalls
    /\ flights = <<>>
    /\ args = [wallet |-> ""]

NextCycle ==
    \/ InitializeMonitoring
    \/ DiscoverPositions
    \/ CheckHealthFactor
    \/ CalculateBuffer
    \/ CheckAlertThreshold
    \/ MonitorPositions

SpecCycle == InitCycle /\ [][NextCycle]_vars

(***************************************************************************)
(* discoverPositions step by step.  The handler is asynchronous: it reads  *)
(* the wallet and the protocols, starts one fetch for each protocol,       *)
(* awaits them all and then writes the ledger.  A flight is a call of      *)
(* discoverPositions that has started its fetches; nothing in the handler  *)
(* keeps a second call from starting while a flight is awaiting, and no    *)
(* fetch carries a timeout: a source that never answers leaves its fetch   *)
(* pending for ever ("silent").  SpecDiscover is the agent under a driver  *)
(* that issues up to MaxFlights + 1 calls of discoverPositions without     *)
(* awaiting the previous call, on the ledger of the wallet W1.             *)
(***************************************************************************)
\* the calls of discoverPositions of this driver
FlightArgs ==
    {[wallet |-> <<>>, protocolIds |-> <<>>],
     [wallet |-> <<>>, protocolIds |-> <<(<<"aave-v3", "curve">>)>>],
     [wallet |-> <<>>, protocolIds |-> <<(<<"compound", "curve">>)>>]}

\* what the sources answer to a flight
SourceAnswers(protocolId) ==
    CASE protocolId = "aave-v3" ->
            {AaveSafe, AaveEthPriceFailed, AaveUsdcPriceFailed, AaveThrows}
      [] protocolId = "curve" ->
            {CurveEdge, CurveCollateralPriceFailed, CurveDebtPriceFailed}
      [] OTHER -> {NoSource}

\* the flight of a call c that passed the guards of the handler
NewFlight(c, finalWallet, finalProtocolIds) ==
    [c |-> c,
     wallet |-> finalWallet,
     protocolIds |-> finalProtocolIds,
     status |-> [i \in 1..Len(finalProtocolIds) |-> "pending"],
     answers |-> [i \in 1..Len(finalProtocolIds) |-> NoSource],
     ts |-> [i \in 1..Len(finalProtocolIds) |-> 0],
     order |-> <<>>,
     returned |-> FALSE,
     fetched |-> <<>>]

\* the handler up to `await fetchAllPositions(...)`
DiscoverStart ==
    \E c \in FlightArgs :
        LET finalWallet == DiscoverFinalWallet(agentMemory, c)
            finalProtocolIds == DiscoverFinalProtocolIds(agentMemory, c)
        IN  /\ CountCall
            /\ UNCHANGED <<agentMemory, now, initialized>>
            /\ IF finalWallet = ""
               THEN /\ op' = "discoverPositions"
                    /\ call' = c
                    /\ res' = [success |-> FALSE,
                               error |-> "Wallet address not provided. Use initializeMonitoring first or provide wallet parameter."]
                    /\ flights' = flights
               ELSE IF Len(finalProtocolIds) = 0
               THEN /\ op' = "discoverPositions"
                    /\ call' = c
                    /\ res' = [success |-> FALSE,
                               error |-> "No protocol IDs provided. Use initializeMonitoring first or provide protocolIds parameter."]
                    /\ flights' = flights
               ELSE /\ Len(flights) < MaxFlights
                    /\ flights' = Append(flights, NewFlight(c, finalWallet, finalProtocolIds))
                    /\ UNCHANGED <<op, call, res>>

\* the source of one protocol answers and the fetch settles
FetchSettles ==
    \E k \in 1..Len(flights) :
        \E i \in 1..Len(flights[k].protocolIds) :
            /\ flights[k].status[i] = "pending"
            /\ \E answer \in SourceAnswers(flights[k].protocolIds[i]) :
                flights' = [flights EXCEPT
                                ![k].status[i] = "settled",
                                ![k].answers[i] = answer,
                                ![k].ts[i] = now,
                                ![k].order = Append(@, i)]
            /\ UNCHANGED <<agentMemory, now, op, call, res, initialized, calls,
                           prevOp, budget, args>>

\* the source of one protocol never answers
SourceSilent ==
    \E k \in 1..Len(flights) :
        \E i \in 1..Len(flights[k].protocolIds) :
            /\ flights[k].status[i] = "pending"
            /\ flights[k].protocolIds[i] \in {"aave-v3", "curve"}
            /\ flights' = [flights EXCEPT ![k].status[i] = "silent"]
            /\ UNCHANGED <<agentMemory, now, op, call, res, initialized, calls,
                           prevOp, budget, args>>

\* every fetch of the flight has settled
AllSettled(f) == \A i \in 1..Len(f.protocolIds) : f.status[i] = "settled"

\* the handler from the return of fetchAllPositions on
DiscoverJoin ==
    \E k \in 1..Len(flights) :
        LET f == flights[k]
            fetched == fetchAllPositions(f.protocolIds, f.answers, f.wallet, f.ts, f.order)
            r == DiscoverPositionsHandler(agentMemory, f.c, fetched, now)
        IN  /\ ~f.returned
            /\ AllSettled(f)
            /\ agentMemory' = r.mem
            /\ op' = "discoverPositions"
            /\ call' = f.c
            /\ res' = r.res
            /\ flights' = [flights EXCEPT ![k].returned = TRUE, ![k].fetched = fetched]
            /\ UNCHANGED <<now, initialized, calls, prevOp, budget, args>>

InitDiscover ==
    /\ now = 1
    /\ agentMemory = CreateMemory(W1, 1)
    /\ op = ""
    /\ call = <<>>
    /\ res = <<>>
    /\ initialized = FALSE
    /\ calls = 0
    /\ prevOp = ""
    /\ budget = MaxFlights + 1
    /\ flights = <<>>
    /\ args = [wallet |-> W1]

NextDiscover ==
    \/ Tick
    \/ DiscoverStart
    \/ FetchSettles
    \/ SourceSilent
    \/ DiscoverJoin

SpecDiscover == InitDiscover /\ [][NextDiscover]_vars

\* the event loop runs every continuation that is ready: an answer that has
\* arrived settles its fetch, and a handler whose fetches have all settled
\* returns
SpecDiscoverFair ==
    InitDiscover /\ [][NextDiscover]_vars /\ WF_vars(NextDiscover)

(***************************************************************************)
(* discoverPositions step by step, together with the calls that replace    *)
(* the wallet and with the monitoring cycle: the driver issues             *)
(* MaxReplaceCalls calls at one instant and does not wait for a            *)
(* discoverPositions to return before it issues the next call.             *)
(***************************************************************************)
InitReplace ==
    /\ now = 1
    /\ agentMemory = CreateMemory(W1, 1)
    /\ op = ""
    /\ call = <<>>
    /\ res = <<>>
    /\ initialized = FALSE
    /\ calls = 0
    /\ prevOp = ""
    /\ budget = MaxReplaceCalls
    /\ flights = <<>>
    /\ args = [wallet |-> W1]

NextReplace ==
    \/ InitializeMonitoring
    \/ UpdateWallet
    \/ DiscoverStart
    \/ FetchSettles
    \/ DiscoverJoin
    \/ MonitorPositions

SpecReplace == InitReplace /\ [][NextReplace]_vars

(***************************************************************************)
(* The risk metrics as the design states them, for the properties below.   *)
(***************************************************************************)
\* healthFactor = debtValue > 0 ? (collateralValue x liquidationThreshold) / debtValue : +oo
SpecHealthFactor(p) ==
    IF p.debtValue[1] > 0
    THEN Norm(p.collateralValue[1] * p.liquidationThreshold[1] * p.debtValue[2],
              p.collateralValue[2] * p.liquidationThreshold[2] * p.debtValue[1])
    ELSE <<1, 0>>

\* bufferPercent = (healthFactor - 1.0) x 100, floored at 0; infinite for an
\* infinite health factor
SpecBuffer(hf) ==
    IF hf = <<1, 0>> THEN <<1, 0>>
    ELSE IF hf[1] < hf[2] THEN <<0, 1>>
    ELSE Norm((hf[1] - hf[2]) * 100, hf[2])

\* a < b and a >= b on the numbers of the model
Below(a, b) == a # <<0, 0>> /\ b # <<0, 0>> /\ a[1] * b[2] < b[1] * a[2]
AtLeast(a, b) == a # <<0, 0>> /\ b # <<0, 0>> /\ a[1] * b[2] >= b[1] * a[2]

\* the step is a call of the action named name
Called(name) == calls' = calls + 1 /\ op' = name
\* the step is a call of the action named name that returned success
Succeeded(name) == Called(name) /\ res'.success

Positions == agentMemory.positions
State == agentMemory.monitoringState

\* indices of the samples of arr that carry the position identity id
SamplesOf(arr, id) == {j \in 1..Len(arr) : arr[j].positionId = id}

\* a sample array without its timestamps
Untimed(arr) ==
    [j \in 1..Len(arr) |->
        [positionId |-> arr[j].positionId, healthFactor |-> arr[j].healthFactor]]

(***************************************************************************)
(* C1: after any successful monitorPositions call the monitoring state     *)
(* holds exactly one health-factor sample and exactly one liquidation-     *)
(* price sample for every position in the ledger, each equal to the value  *)
(* computed from that position in this cycle; the stored alert flag is the *)
(* OR over the positions of (clamped buffer < effective threshold); and    *)
(* lastChecked is the current time.                                        *)
(***************************************************************************)
C1_MonitorWritesSnapshot ==
    [][Succeeded("monitorPositions") =>
        LET ps == agentMemory'.positions
            ms == agentMemory'.monitoringState
        IN  /\ \A i \in 1..Len(ps) :
                /\ Cardinality(SamplesOf(ms.healthFactors, ps[i].id)) = 1
                /\ \A j \in SamplesOf(ms.healthFactors, ps[i].id) :
                    /\ ms.healthFactors[j].healthFactor = SpecHealthFactor(ps[i])
                    /\ ms.healthFactors[j].healthFactor = res'.health_factor[i]
                /\ Cardinality(SamplesOf(ms.liquidationPrices, ps[i].id)) = 1
                /\ \A j \in SamplesOf(ms.liquidationPrices, ps[i].id) :
                    ms.liquidationPrices[j].liqPrice = res'.liq_price[i]
            /\ ms.alertThresholdHit =
                (\E i \in 1..Len(ps) :
                    Below(SpecBuffer(SpecHealthFactor(ps[i])), ms.alertThreshold))
            /\ ms.lastChecked = now
    ]_vars

\* the same, for the ledgers in which no two positions share an identity
UniqueIds(ps) ==
    \A i, k \in 1..Len(ps) : ps[i].id = ps[k].id => i = k

C1_MonitorWritesSnapshotUniqueIds ==
    [][Succeeded("monitorPositions") /\ UniqueIds(agentMemory'.positions) =>
        LET ps == agentMemory'.positions
            ms == agentMemory'.monitoringState
        IN  /\ \A i \in 1..Len(ps) :
                /\ Cardinality(SamplesOf(ms.healthFactors, ps[i].id)) = 1
                /\ \A j \in SamplesOf(ms.healthFactors, ps[i].id) :
                    /\ ms.healthFactors[j].healthFactor = SpecHealthFactor(ps[i])
                    /\ ms.healthFactors[j].healthFactor = res'.health_factor[i]
                /\ Cardinality(SamplesOf(ms.liquidationPrices, ps[i].id)) = 1
                /\ \A j \in SamplesOf(ms.liquidationPrices, ps[i].id) :
                    ms.liquidationPrices[j].liqPrice = res'.liq_price[i]
            /\ ms.alertThresholdHit =
                (\E i \in 1..Len(ps) :
                    Below(SpecBuffer(SpecHealthFactor(ps[i])), ms.alertThreshold))
            /\ ms.lastChecked = now
    ]_vars

(***************************************************************************)
(* C2 (as claimed): in every reachable state the stored alert flag equals  *)
(* the OR, across the positions in the ledger, of "buffer percent below    *)
(* the stored threshold".                                                  *)
(***************************************************************************)
AnyPositionBelowThreshold(mem) ==
    \E i \in 1..Len(mem.positions) :
        Below(SpecBuffer(SpecHealthFactor(mem.positions[i])),
              mem.monitoringState.alertThreshold)

SampleBelowThreshold(mem, threshold) ==
    \E j \in 1..Len(mem.monitoringState.healthFactors) :
        LET hf == mem.monitoringState.healthFactors[j]
        IN  /\ \E i \in 1..Len(mem.positions) : mem.positions[i].id = hf.positionId
            /\ Below(Norm((hf.healthFactor[1] - hf.healthFactor[2]) * 100,
                          hf.healthFactor[2]),
                     threshold)

C3_MonitorIdempotent ==
    [][(/\ op = "monitorPositions"
        /\ res.success
        /\ Called("monitorPositions")
        /\ call'.alertThreshold \in {call.alertThreshold, <<>>})
       =>
       (/\ res'.success
        /\ res'.health_factor = res.health_factor
        /\ res'.liq_price = res.liq_price
        /\ res'.buffer_percent = res.buffer_percent
        /\ res'.alert_threshold_hit = res.alert_threshold_hit
        /\ Untimed(agentMemory'.monitoringState.healthFactors)
            = Untimed(State.healthFactors)
        /\ agentMemory'.monitoringState.liquidationPrices = State.liquidationPrices
        /\ agentMemory'.monitoringState.alertThresholdHit = State.alertThresholdHit
        /\ agentMemory'.monitoringState.alertThreshold = State.alertThreshold)
    ]_vars

\* two successful cycles in a row, the alert raised
C3_Witness ==
    /\ prevOp = "monitorPositions"
    /\ op = "monitorPositions"
    /\ res.success
    /\ res.alert_threshold_hit
    /\ Len(State.healthFactors) >= 1

(***************************************************************************)
(* C4: a position whose buffer percent equals the effective threshold is   *)
(* classified not at-risk by monitorPositions and by checkAlertThreshold;  *)
(* only a buffer strictly below the threshold sets the alert.  The buffer  *)
(* percent of a position is the clamped buffer of its health factor, the   *)
(* effective threshold the one the call evaluated with.                    *)
(***************************************************************************)
C4_BoundaryNotAtRisk ==
    /\ (op = "monitorPositions" /\ res.success) =>
        (res.alert_threshold_hit =
            (\E i \in 1..Len(res.health_factor) :
                Below(SpecBuffer(res.health_factor[i]), State.alertThreshold)))
    /\ (op = "checkAlertThreshold" /\ res.success) =>
        /\ \A i \in 1..Len(res.atRiskPositions) :
            Below(SpecBuffer(res.atRiskPositions[i].healthFactor), res.threshold)
        /\ res.alertThresholdHit = (Len(res.atRiskPositions) > 0)

(***************************************************************************)
(* C5: every buffer_percent monitorPositions returns and every             *)
(* bufferPercent calculateBuffer returns is >= 0, and it is exactly 0 when *)
(* the health factor reported with it is below 1.                          *)
(***************************************************************************)
C5_BufferNeverNegative ==
    /\ (op = "monitorPositions" /\ res.success) =>
        \A i \in 1..Len(res.buffer_percent) :
            /\ AtLeast(res.buffer_percent[i], <<0, 1>>)
            /\ Below(res.health_factor[i], <<1, 1>>) =>
                res.buffer_percent[i] = <<0, 1>>
    /\ (op = "calculateBuffer" /\ res.success) =>
        \A i \in 1..Len(res.buffers) :
            /\ AtLeast(res.buffers[i].bufferPercent, <<0, 1>>)
            /\ Below(res.buffers[i].healthFactor, <<1, 1>>) =>
                res.buffers[i].bufferPercent = <<0, 1>>

\* calculateBuffer has reported a position whose health factor is between 0
\* and 1
C5_Witness ==
    /\ op = "calculateBuffer"
    /\ res.success
    /\ \E i \in 1..Len(res.buffers) :
        /\ Below(<<0, 1>>, res.buffers[i].healthFactor)
        /\ Below(res.buffers[i].healthFactor, <<1, 1>>)
        /\ res.buffers[i].bufferPercent = <<0, 1>>

HealthFactorApplies(p) ==
    /\ Below(<<0, 1>>, p.debtValue)
    /\ Below(<<0, 1>>, p.collateralValue)
    /\ Below(<<0, 1>>, p.liquidationThreshold)
    /\ AtLeast(<<1, 1>>, p.liquidationThreshold)

\* hf x debtValue = collateralValue x liquidationThreshold
IsHealthFactorOf(hf, p) ==
    /\ hf[2] > 0
    /\ hf[1] * (p.debtValue[1] * p.collateralValue[2] * p.liquidationThreshold[2])
        = hf[2] * (p.collateralValue[1] * p.liquidationThreshold[1] * p.debtValue[2])

\* position i is the only one of ps with its identity
OnlyOneWithId(ps, i) == \A k \in 1..Len(ps) : ps[k].id = ps[i].id => k = i

C7_HealthFactorFormula ==
    [][LET ps == agentMemory.positions
       IN  /\ Succeeded("monitorPositions") =>
                \A i \in 1..Len(ps) :
                    HealthFactorApplies(ps[i]) =>
                        /\ IsHealthFactorOf(res'.health_factor[i], ps[i])
                        /\ (op = "checkHealthFactor" /\ res.success) =>
                            \A j \in 1..Len(res.healthFactors) :
                                (/\ res.healthFactors[j].positionId = ps[i].id
                                 /\ OnlyOneWithId(ps, i))
                                => res.healthFactors[j].healthFactor
                                    = res'.health_factor[i]
           /\ Succeeded("checkHealthFactor") =>
                /\ call'.positionId = <<>> =>
                    /\ Len(res'.healthFactors) = Len(ps)
                    /\ \A i \in 1..Len(ps) :
                        /\ res'.healthFactors[i].positionId = ps[i].id
                        /\ HealthFactorApplies(ps[i]) =>
                            IsHealthFactorOf(res'.healthFactors[i].healthFactor, ps[i])
                /\ \A j \in 1..Len(res'.healthFactors) :
                    \A i \in 1..Len(ps) :
                        (/\ res'.healthFactors[j].positionId = ps[i].id
                         /\ OnlyOneWithId(ps, i)
                         /\ HealthFactorApplies(ps[i]))
                        => IsHealthFactorOf(res'.healthFactors[j].healthFactor, ps[i])
    ]_vars

\* a monitorPositions right after a checkHealthFactor, over a position with
\* debt whose health factor is not 1
C7_Witness ==
    /\ prevOp = "checkHealthFactor"
    /\ op = "monitorPositions"
    /\ res.success
    /\ \E i \in 1..Len(Positions) :
        /\ HealthFactorApplies(Positions[i])
        /\ res.health_factor[i] # <<1, 1>>
        /\ \E j \in SamplesOf(State.healthFactors, Positions[i].id) :
            State.healthFactors[j].healthFactor = res.health_factor[i]

(***************************************************************************)
(* C8: for every position, the liquidation price calculateLiquidationPrice *)
(* and monitorPositions return is                                          *)
(* debtValue / (collateralAmount x liquidationThreshold) when              *)
(* collateralAmount > 0 and liquidationThreshold > 0, and 0 otherwise;     *)
(* when collateralAmount = 0 the liquidation price and the current price   *)
(* are both 0 and the operation succeeds.                                  *)
(***************************************************************************)
\* lp x collateralAmount x liquidationThreshold = debtValue, or lp = 0
IsLiquidationPriceOf(lp, p) ==
    LET amt == parseFloat(p.collateralAmount)
        lt == p.liquidationThreshold
    IN  IF Below(<<0, 1>>, amt) /\ Below(<<0, 1>>, lt)
        THEN /\ lp[2] > 0
             /\ lp[1] * (amt[1] * lt[1] * p.debtValue[2])
                 = lp[2] * (p.debtValue[1] * amt[2] * lt[2])
        ELSE lp = <<0, 1>>

NoCollateralAmount(p) == parseFloat(p.collateralAmount) = <<0, 1>>

C8_LiquidationPriceFormula ==
    [][LET ps == agentMemory.positions
       IN  /\ Succeeded("monitorPositions") =>
                \A i \in 1..Len(ps) :
                    /\ IsLiquidationPriceOf(res'.liq_price[i], ps[i])
                    /\ res'.positions[i].liqPrice = res'.liq_price[i]
                    /\ (NoCollateralAmount(ps[i]) /\ OnlyOneWithId(ps, i)) =>
                        \A j \in SamplesOf(agentMemory'.monitoringState.liquidationPrices,
                                           ps[i].id) :
                            LET lp == agentMemory'.monitoringState.liquidationPrices[j]
                            IN  lp.liqPrice = <<0, 1>> /\ lp.currentPrice = <<0, 1>>
           /\ Called("calculateLiquidationPrice") =>
                /\ Len(ps) > 0 => res'.success
                /\ res'.success =>
                    /\ call'.positionId = <<>> =>
                        /\ Len(res'.liquidationPrices) = Len(ps)
                        /\ \A i \in 1..Len(ps) :
                            /\ res'.liquidationPrices[i].positionId = ps[i].id
                            /\ IsLiquidationPriceOf(res'.liquidationPrices[i].liqPrice,
                                                    ps[i])
                            /\ NoCollateralAmount(ps[i]) =>
                                res'.liquidationPrices[i].currentPrice = <<0, 1>>
                    /\ \A j \in 1..Len(res'.liquidationPrices) :
                        \A i \in 1..Len(ps) :
                            (/\ res'.liquidationPrices[j].positionId = ps[i].id
                             /\ OnlyOneWithId(ps, i))
                            => /\ IsLiquidationPriceOf(
                                    res'.liquidationPrices[j].liqPrice, ps[i])
                               /\ NoCollateralAmount(ps[i]) =>
                                    res'.liquidationPrices[j].currentPrice = <<0, 1>>
    ]_vars

\* calculateLiquidationPrice has succeeded on a ledger that holds a position
\* without collateral amount, one without liquidation threshold, or both
C8_Witness ==
    /\ op = "calculateLiquidationPrice"
    /\ res.success
    /\ \E i \in 1..Len(Positions) :
        /\ NoCollateralAmount(Positions[i])
        /\ \E j \in 1..Len(res.liquidationPrices) :
            /\ res.liquidationPrices[j].positionId = Positions[i].id
            /\ res.liquidationPrices[j].liqPrice = <<0, 1>>
            /\ res.liquidationPrices[j].currentPrice = <<0, 1>>
    /\ \E i \in 1..Len(Positions) :
        /\ ~NoCollateralAmount(Positions[i])
        /\ \E j \in 1..Len(res.liquidationPrices) :
            /\ res.liquidationPrices[j].positionId = Positions[i].id
            /\ res.liquidationPrices[j].liqPrice # <<0, 1>>

(***************************************************************************)
(* C9: on an initialized ledger with threshold 15 whose single position is *)
(* {collateralValue 25000, debtValue 5000, liquidationThreshold 0.8,       *)
(* collateralAmount "10"}, monitorPositions yields healthFactor 4,         *)
(* bufferPercent 300, liquidationPrice 625, currentPrice 2500 and          *)
(* alert_threshold_hit = false.                                            *)
(***************************************************************************)
C9_Scenario ==
    /\ initialized
    /\ op = "monitorPositions"
    /\ res.success
    /\ call.alertThreshold = <<>>
    /\ State.alertThreshold = <<15, 1>>
    /\ Len(Positions) = 1
    /\ Positions[1].collateralValue = <<25000, 1>>
    /\ Positions[1].debtValue = <<5000, 1>>
    /\ Positions[1].liquidationThreshold = <<4, 5>>
    /\ Positions[1].collateralAmount = <<"1", "0">>

C9_ScenarioValues ==
    C9_Scenario =>
        /\ res.health_factor = <<(<<4, 1>>)>>
        /\ res.buffer_percent = <<(<<300, 1>>)>>
        /\ res.liq_price = <<(<<625, 1>>)>>
        /\ \E j \in SamplesOf(State.liquidationPrices, Positions[1].id) :
            State.liquidationPrices[j].currentPrice = <<2500, 1>>
        /\ \A j \in SamplesOf(State.liquidationPrices, Positions[1].id) :
            /\ State.liquidationPrices[j].currentPrice = <<2500, 1>>
            /\ State.liquidationPrices[j].liqPrice = <<625, 1>>
        /\ res.alert_threshold_hit = FALSE
        /\ State.alertThresholdHit = FALSE

\* the scenario has been run on a position added with addPosition
C9_Witness ==
    /\ C9_Scenario
    /\ prevOp = "addPosition"
    /\ Positions[1].protocolId = "aave-v3"
    /\ res.positions[1].healthFactor = <<4, 1>>

(***************************************************************************)
(* C10 (as claimed): while no initializeMonitoring has succeeded, every    *)
(* other operation that changes or evaluates the ledger fails with a       *)
(* not-configured error and leaves the ledger unchanged.                   *)
(***************************************************************************)
NotConfiguredErrors ==
    {"Wallet address not provided. Use initializeMonitoring first or provide wallet parameter.",
     "No protocol IDs provided. Use initializeMonitoring first or provide protocolIds parameter.",
     "Wallet not configured. Use initializeMonitoring first.",
     "Wallet and protocol IDs must be configured first. Use initializeMonitoring action.",
     "Monitoring not initialized. Use initializeMonitoring first."}

OtherOperations ==
    {"updateWallet", "discoverPositions", "addPosition", "checkHealthFactor",
     "calculateLiquidationPrice", "calculateBuffer", "checkAlertThreshold",
     "monitorPositions"}

Configured(mem) == mem.wallet # "" /\ Len(mem.protocolIds) > 0

PreconditionErrors ==
    {"No positions found. Positions need to be discovered first.",
     "No positions found.",
     "Health factors not calculated. Run checkHealthFactor first."}

EvaluationOperations ==
    {"checkHealthFactor", "calculateLiquidationPrice", "calculateBuffer",
     "checkAlertThreshold", "monitorPositions"}

C11_NoPositionsRejected ==
    [][(/\ Configured(agentMemory)
        /\ Len(agentMemory.positions) = 0
        /\ \E name \in EvaluationOperations : Called(name))
       => /\ ~res'.success
          /\ res'.error \in PreconditionErrors
          /\ agentMemory'.monitoringState = agentMemory.monitoringState
    ]_vars

(***************************************************************************)
(* C12: in every reachable state in which the ledger holds at least one    *)
(* position, the wallet is set and protocolIds is not empty, so that       *)
(* monitorPositions is not refused as not configured.                      *)
(***************************************************************************)
C12_PositionsImplyConfigured ==
    Len(Positions) > 0 =>
        /\ Configured(agentMemory)
        /\ MonitorPositionsHandler(agentMemory, [alertThreshold |-> <<>>], now).res.success

(***************************************************************************)
(* C13: checkAlertThreshold fails when the health-factor sample set is     *)
(* empty, and it reports success with alertThresholdHit = false only when  *)
(* a stored health-factor sample belongs to a position in the ledger.      *)
(***************************************************************************)
C13_SafeOnlyWithData ==
    [][Called("checkAlertThreshold") =>
        LET samples == agentMemory.monitoringState.healthFactors
            ps == agentMemory.positions
        IN  /\ samples = <<>> => ~res'.success
            /\ (res'.success /\ ~res'.alertThresholdHit) =>
                \E j \in 1..Len(samples) :
                    \E i \in 1..Len(ps) : ps[i].id = samples[j].positionId
    ]_vars

(***************************************************************************)
(* C14: every at-risk entry checkAlertThreshold returns carries the buffer *)
(* percent max(0, (healthFactor - 1) x 100) of its health factor: it is    *)
(* never negative and is the buffer monitorPositions and calculateBuffer   *)
(* report for that health factor.                                          *)
(***************************************************************************)
C14_AtRiskBufferClamped ==
    (op = "checkAlertThreshold" /\ res.success) =>
        \A i \in 1..Len(res.atRiskPositions) :
            LET e == res.atRiskPositions[i]
            IN  /\ AtLeast(e.bufferPercent, <<0, 1>>)
                /\ e.bufferPercent = SpecBuffer(e.healthFactor)
                /\ e.bufferPercent = MonitorBufferOf(e.healthFactor)

(***************************************************************************)
(* C15: a successful initializeMonitoring, from any prior state, replaces  *)
(* wallet and protocolIds with its arguments and leaves positions empty,   *)
(* health-factor samples empty, liquidation-price samples empty, the alert *)
(* flag false and lastChecked = 0.                                         *)
(***************************************************************************)
C15_InitializeResets ==
    [][Succeeded("initializeMonitoring") =>
        /\ agentMemory'.wallet = call'.wallet
        /\ agentMemory'.protocolIds = call'.protocolIds
        /\ agentMemory'.positions = <<>>
        /\ agentMemory'.monitoringState.healthFactors = <<>>
        /\ agentMemory'.monitoringState.liquidationPrices = <<>>
        /\ agentMemory'.monitoringState.alertThresholdHit = FALSE
        /\ agentMemory'.monitoringState.lastChecked = 0
    ]_vars

\* an initializeMonitoring has succeeded as the fourth call, right after a
\* monitorPositions
C15_Witness ==
    /\ op = "initializeMonitoring"
    /\ res.success
    /\ prevOp = "monitorPositions"
    /\ calls = 4
    /\ agentMemory.wallet = call.wallet
    /\ Positions = <<>>
    /\ State.healthFactors = <<>>

(***************************************************************************)
(* C16: initializeMonitoring called with a wallet that is not 0x followed  *)
(* by 40 hexadecimal characters, or with an empty protocolIds list, fails  *)
(* with a validation error and leaves every field of the ledger unchanged. *)
(***************************************************************************)
\* the strings of the model that are 0x followed by 40 hexadecimal characters
WalletAddresses == {W1, W2}

ValidationErrors ==
    {"Wallet address is required",
     "Wallet address must be a valid Ethereum address (0x...)",
     "At least one protocol ID is required",
     "Wallet address and protocol IDs are required"}

C16_InitializeValidates ==
    [][(/\ Called("initializeMonitoring")
        /\ (call'.wallet \notin WalletAddresses \/ Len(call'.protocolIds) = 0))
       => /\ ~res'.success
          /\ res'.error \in ValidationErrors
          /\ agentMemory' = agentMemory
    ]_vars

\* an initializeMonitoring with 0x and 39 hex digits has been refused on a
\* ledger that holds a position
C16_Witness ==
    /\ op = "initializeMonitoring"
    /\ call.wallet = WShort
    /\ ~res.success
    /\ res.error = "Wallet address must be a valid Ethereum address (0x...)"
    /\ Len(Positions) > 0
    /\ agentMemory.wallet = W1

(***************************************************************************)
(* C17: after a successful initializeMonitoring the stored alert threshold *)
(* equals the supplied alertThreshold for every supplied value in 0..100   *)
(* (0 included), and equals 15 when alertThreshold is omitted.             *)
(***************************************************************************)
C17_InitializeStoresThreshold ==
    [][Succeeded("initializeMonitoring") =>
        agentMemory'.monitoringState.alertThreshold =
            IF call'.alertThreshold = <<>> THEN <<15, 1>> ELSE call'.alertThreshold[1]
    ]_vars

(***************************************************************************)
(* C18: a successful updateWallet empties positions and both sample        *)
(* arrays, clears the alert flag and lastChecked, and leaves the stored    *)
(* alert threshold (whatever its value, 0 included) and protocolIds as     *)
(* they were before the call.                                              *)
(***************************************************************************)
C18_UpdateWalletKeepsThreshold ==
    [][Succeeded("updateWallet") =>
        /\ agentMemory'.wallet = call'.wallet
        /\ agentMemory'.positions = <<>>
        /\ agentMemory'.monitoringState.healthFactors = <<>>
        /\ agentMemory'.monitoringState.liquidationPrices = <<>>
        /\ agentMemory'.monitoringState.alertThresholdHit = FALSE
        /\ agentMemory'.monitoringState.lastChecked = 0
        /\ agentMemory'.monitoringState.alertThreshold =
            agentMemory.monitoringState.alertThreshold
        /\ agentMemory'.protocolIds = agentMemory.protocolIds
    ]_vars

(***************************************************************************)
(* C19: addPosition with an identity already in the ledger replaces that   *)
(* position in place (count and order unchanged); with a new identity it   *)
(* appends exactly one position; with no wallet configured (or with        *)
(* arguments its schema rejects) it fails and leaves the ledger unchanged. *)
(* Every other position is unchanged.                                      *)
(***************************************************************************)
\* position p carries the values of the addPosition call c
CarriesCall(p, c) ==
    /\ p.protocolId = c.protocolId
    /\ p.collateralAsset = c.collateralAsset
    /\ p.debtAsset = c.debtAsset
    /\ p.collateralAmount = c.collateralAmount
    /\ p.debtAmount = c.debtAmount
    /\ p.collateralValue = c.collateralValue
    /\ p.debtValue = c.debtValue
    /\ p.liquidationThreshold = c.liquidationThreshold

C19_AddPositionUpserts ==
    [][Called("addPosition") =>
        LET ps == agentMemory.positions
            qs == agentMemory'.positions
        IN  IF agentMemory.wallet = "" \/ AddPositionSchemaError(call') # ""
            THEN ~res'.success /\ agentMemory' = agentMemory
            ELSE /\ res'.success
                 /\ call'.positionId # <<>> =>
                        res'.positionId = <<call'.positionId[1], "", "", 0>>
                 /\ LET id == res'.positionId
                    IN  IF \E i \in 1..Len(ps) : ps[i].id = id
                        THEN /\ Len(qs) = Len(ps)
                             /\ \A i \in 1..Len(ps) :
                                    /\ qs[i].id = ps[i].id
                                    /\ ps[i].id # id => qs[i] = ps[i]
                                    /\ ps[i].id = id => CarriesCall(qs[i], call')
                        ELSE /\ Len(qs) = Len(ps) + 1
                             /\ \A i \in 1..Len(ps) : qs[i] = ps[i]
                             /\ qs[Len(qs)].id = id
                             /\ CarriesCall(qs[Len(qs)], call')
                 /\ agentMemory'.wallet = agentMemory.wallet
                 /\ agentMemory'.protocolIds = agentMemory.protocolIds
                 /\ agentMemory'.monitoringState = agentMemory.monitoringState
    ]_vars

\* the last addPosition wrote the position "p1" that stands first of two: it
\* was in the ledger before the second was appended, so the call replaced it
C19_Witness ==
    /\ op = "addPosition"
    /\ res.success
    /\ res.positionId = <<"p1", "", "", 0>>
    /\ Len(Positions) = 2
    /\ Positions[1].id = <<"p1", "", "", 0>>
    /\ Positions[2].id # <<"p1", "", "", 0>>
    /\ CarriesCall(Positions[1], call)

(***************************************************************************)
(* C20: getMonitoringConfig never fails and never modifies the ledger; on  *)
(* a ledger without wallet and protocols it returns the defaults: the      *)
(* "Not set" wallet placeholder, an empty protocol list, threshold 15,     *)
(* position count 0, lastChecked 0 and alert flag false.                   *)
(***************************************************************************)
C20_GetConfigReadOnlyDefaults ==
    [][Called("getMonitoringConfig") =>
        /\ agentMemory' = agentMemory
        /\ (agentMemory.wallet = "" /\ agentMemory.protocolIds = <<>>) =>
            res' = [wallet |-> "Not set",
                    protocolIds |-> <<>>,
                    alertThreshold |-> <<15, 1>>,
                    positionsCount |-> 0,
                    lastChecked |-> 0,
                    alertThresholdHit |-> FALSE]
    ]_vars

(***************************************************************************)
(* C21: each field of the snapshot getMonitoringConfig returns equals the  *)
(* stored value (the wallet placeholder aside): the reported               *)
(* alertThreshold is the stored alert threshold, whatever its value, 0     *)
(* included, and positionsCount is the number of positions in the ledger.  *)
(***************************************************************************)
C21_GetConfigReportsStored ==
    [][Called("getMonitoringConfig") =>
        /\ agentMemory.wallet # "" => res'.wallet = agentMemory.wallet
        /\ res'.protocolIds = agentMemory.protocolIds
        /\ res'.alertThreshold = agentMemory.monitoringState.alertThreshold
        /\ res'.positionsCount = Len(agentMemory.positions)
        /\ res'.lastChecked = agentMemory.monitoringState.lastChecked
        /\ res'.alertThresholdHit = agentMemory.monitoringState.alertThresholdHit
    ]_vars

(***************************************************************************)
(* Helpers for the properties of the discoverPositions flights.            *)
(***************************************************************************)
\* the step is the return of the k-th flight
Joining(k) ==
    /\ k <= Len(flights)
    /\ ~flights[k].returned
    /\ flights'[k].returned

\* what the i-th protocol of flight f contributes: nothing when the protocol
\* is unknown or its fetch threw, else the positions its adapter returned
Contribution(f, i) ==
    IF f.protocolIds[i] = "aave-v3"
    THEN (IF f.answers[i].throws THEN <<>>
          ELSE fetchAavePositions(f.answers[i], f.wallet, f.ts[i]).positions)
    ELSE IF f.protocolIds[i] = "curve"
    THEN (IF f.answers[i].throws THEN <<>>
          ELSE fetchCurvePositions(f.answers[i], f.wallet, f.ts[i]).positions)
    ELSE <<>>

\* the contributions of the first n protocols of f, in the order of the list
RECURSIVE Contributions(_, _)
Contributions(f, n) ==
    IF n = 0 THEN <<>> ELSE Contributions(f, n - 1) \o Contribution(f, n)

\* the identities of a list of positions
IdsOf(ps) == [i \in 1..Len(ps) |-> ps[i].id]

(***************************************************************************)
(* C22: when the fetch of one protocol throws and the fetches of the       *)
(* others succeed, discoverPositions returns exactly the positions of the  *)
(* protocols that succeeded and no error reaches the caller; an unknown    *)
(* protocol identifier contributes no position.                            *)
(***************************************************************************)
C22_PartialFailureAggregation ==
    [][\A k \in 1..MaxFlights :
        Joining(k) =>
            LET f == flights[k]
                expected == Contributions(f, Len(f.protocolIds))
            IN  /\ res'.success
                /\ res'.positionsFound = Len(expected)
                /\ IdsOf(res'.positions) = IdsOf(expected)
                /\ flights'[k].fetched = expected
                /\ agentMemory'.positions = expected
    ]_vars

\* a call returned, and the ledger holds, the one position Curve answered
\* while the fetch from Aave threw
C22_Witness ==
    \E k \in 1..Len(flights) :
        /\ flights[k].returned
        /\ flights[k].protocolIds = <<"aave-v3", "curve">>
        /\ flights[k].answers[1].throws
        /\ Len(flights[k].fetched) = 1
        /\ flights[k].fetched[1].protocolId = "curve"
        /\ op = "discoverPositions"
        /\ res.success
        /\ res.positionsFound = 1
        /\ agentMemory.positions = flights[k].fetched

(***************************************************************************)
(* C23: after a successful discoverPositions the ledger's positions are    *)
(* the per-protocol results concatenated in the order of the protocol      *)
(* list, in whatever order the fetches completed; no position held before  *)
(* remains; wallet, protocolIds, alert threshold, alert flag, samples and  *)
(* lastChecked are unchanged.                                              *)
(***************************************************************************)
C23_DiscoverReplacesInListOrder ==
    [][\A k \in 1..MaxFlights :
        Joining(k) /\ res'.success =>
            LET f == flights[k]
                n == Len(f.protocolIds)
                results ==
                    [i \in 1..n |->
                        FetchPromise(f.protocolIds[i], f.answers[i], f.wallet, f.ts[i])]
            IN  /\ agentMemory'.positions = Flatten(results)
                /\ agentMemory'.wallet = agentMemory.wallet
                /\ agentMemory'.protocolIds = agentMemory.protocolIds
                /\ agentMemory'.monitoringState = agentMemory.monitoringState
                /\ agentMemory'.checkedAt = agentMemory.checkedAt
    ]_vars

\* the second call returned last, its Curve fetch having completed before its
\* Aave fetch; the ledger holds its two positions, Aave's first, and not
\* the positions the first call had stored
C23_Witness ==
    /\ Len(flights) = 2
    /\ flights[1].returned
    /\ flights[2].returned
    /\ flights[1].fetched # <<>>
    /\ flights[2].protocolIds = <<"aave-v3", "curve">>
    /\ flights[2].order = <<2, 1>>
    /\ Len(flights[2].fetched) = 2
    /\ flights[2].fetched[1].protocolId = "aave-v3"
    /\ flights[2].fetched[2].protocolId = "curve"
    /\ flights[2].fetched # flights[1].fetched
    /\ agentMemory.positions = flights[2].fetched

(***************************************************************************)
(* C26: when the price lookup of one leg (collateral or debt) of a         *)
(* position fails, the adapter still returns the position, with the USD    *)
(* value of that leg 0 and the value of the other leg as it is without     *)
(* the failure.                                                            *)
(***************************************************************************)
\* the position the adapter of flight f's i-th protocol built has the value
\* cv for its collateral leg and dv for its debt leg
LegValues(f, i, cv, dv) ==
    LET ps == FetchPromise(f.protocolIds[i], f.answers[i], f.wallet, f.ts[i])
    IN  /\ Len(ps) = 1
        /\ ps[1].collateralValue = cv
        /\ ps[1].debtValue = dv

C26_FailedPriceLegIsZero ==
    \A k \in 1..Len(flights) :
        \A i \in 1..Len(flights[k].protocolIds) :
            LET f == flights[k]
                a == f.answers[i]
            IN  /\ (/\ f.status[i] = "settled"
                    /\ f.protocolIds[i] = "aave-v3"
                    /\ ~a.throws /\ ~a.reverted /\ a.totalDebt # Zero
                    /\ ~(a.eth.ok /\ a.usdc.ok))
                    => LegValues(f, i,
                            IF a.eth.ok THEN a.totalCollateral ELSE Zero,
                            IF a.usdc.ok THEN a.totalDebt ELSE Zero)
                /\ (/\ f.status[i] = "settled"
                    /\ f.protocolIds[i] = "curve"
                    /\ ~a.throws /\ ~a.reverted
                    /\ ~a.controllers[1].reverted
                    /\ ~(a.controllers[1].collateralPrice.ok
                            /\ a.controllers[1].debtPrice.ok))
                    => LET ca == a.controllers[1]
                       IN  LegValues(f, i,
                                IF ca.collateralPrice.ok
                                THEN Mul(parseFloat(ca.collateral), ca.collateralPrice.usd)
                                ELSE Zero,
                                IF ca.debtPrice.ok
                                THEN Mul(parseFloat(ca.debt), ca.debtPrice.usd)
                                ELSE Zero)

\* the same for the Curve adapter alone
C26_CurveFailedPriceLegIsZero ==
    \A k \in 1..Len(flights) :
        \A i \in 1..Len(flights[k].protocolIds) :
            LET f == flights[k]
                a == f.answers[i]
            IN  (/\ f.status[i] = "settled"
                 /\ f.protocolIds[i] = "curve"
                 /\ ~a.throws /\ ~a.reverted
                 /\ ~a.controllers[1].reverted
                 /\ ~(a.controllers[1].collateralPrice.ok
                        /\ a.controllers[1].debtPrice.ok))
                 => LET ca == a.controllers[1]
                    IN  LegValues(f, i,
                            IF ca.collateralPrice.ok
                            THEN Mul(parseFloat(ca.collateral), ca.collateralPrice.usd)
                            ELSE Zero,
                            IF ca.debtPrice.ok
                            THEN Mul(parseFloat(ca.debt), ca.debtPrice.usd)
                            ELSE Zero)

(***************************************************************************)
(* C27: when a second discoverPositions call is issued while a first is    *)
(* in flight, the two are serialized: the effect of the second call is     *)
(* applied after that of the first, so that the ledger ends with the       *)
(* positions of the second call in whatever order the fetches complete.    *)
(***************************************************************************)
C27_OverlappingDiscoversSerialized ==
    [][\A k \in 1..MaxFlights :
        Joining(k) =>
            \A j \in (k + 1)..Len(flights) : ~flights[j].returned
    ]_vars

\* the ledger after both calls returned holds what the later call fetched
C27_LedgerIsLastCalls ==
    (Len(flights) = 2 /\ flights[1].returned /\ flights[2].returned)
        => agentMemory.positions = flights[2].fetched

(***************************************************************************)
(* C28: every discoverPositions call eventually returns, also when a       *)
(* protocol source or a price source never answers: the source that does   *)
(* not answer counts as a failed protocol with no position, and the        *)
(* positions of the sources that answered are returned.                    *)
(***************************************************************************)
C28_DiscoverEventuallyReturns ==
    \A k \in 1..MaxFlights :
        (Len(flights) >= k) ~> (Len(flights) >= k /\ flights[k].returned)

(***************************************************************************)
(* C24: no two positions of the ledger share an identity: of the entries   *)
(* of a discovery result that carry the same identity the later one        *)
(* overwrites the earlier, and addPosition never creates a second entry    *)
(* with an identity the ledger holds.                                      *)
(***************************************************************************)
C24_IdentitiesUnique ==
    \A i \in 1..Len(Positions) :
        \A k \in 1..Len(Positions) :
            Positions[i].id = Positions[k].id => i = k

\* addPosition alone: a call on a ledger without duplicates leaves none
C24_AddPositionKeepsUnique ==
    [][Succeeded("addPosition") /\ UniqueIds(agentMemory.positions)
        => UniqueIds(agentMemory'.positions)]_vars

(***************************************************************************)
(* C25: every position of the ledger, entered by addPosition or by         *)
(* discoverPositions, has a liquidationThreshold in [0, 1], a              *)
(* collateralValue >= 0 and a debtValue >= 0.                              *)
(***************************************************************************)
C25_PositionValuesInRange ==
    \A i \in 1..Len(Positions) :
        /\ AtLeast(Positions[i].liquidationThreshold, <<0, 1>>)
        /\ AtLeast(<<1, 1>>, Positions[i].liquidationThreshold)
        /\ AtLeast(Positions[i].collateralValue, <<0, 1>>)
        /\ AtLeast(Positions[i].debtValue, <<0, 1>>)

\* the liquidation threshold alone
C25_ThresholdInRange ==
    \A i \in 1..Len(Positions) :
        /\ AtLeast(Positions[i].liquidationThreshold, <<0, 1>>)
        /\ AtLeast(<<1, 1>>, Positions[i].liquidationThreshold)

(***************************************************************************)
(* C29: in every successful monitorPositions result the arrays             *)
(* health_factor, liq_price, buffer_percent and positions are as long as   *)
(* the ledger was at the start of the cycle, and index i of each refers    *)
(* to the i-th position of the ledger.                                     *)
(***************************************************************************)
C29_ResultArraysFollowLedger ==
    [][Succeeded("monitorPositions") =>
        LET ps == agentMemory.positions
            n == Len(ps)
        IN  /\ Len(res'.health_factor) = n
            /\ Len(res'.liq_price) = n
            /\ Len(res'.buffer_percent) = n
            /\ Len(res'.positions) = n
            /\ \A i \in 1..n :
                /\ res'.positions[i].positionId = ps[i].id
                /\ res'.positions[i].protocolId = ps[i].protocolId
                /\ res'.positions[i].healthFactor = res'.health_factor[i]
                /\ res'.positions[i].liqPrice = res'.liq_price[i]
                /\ res'.positions[i].bufferPercent = res'.buffer_percent[i]
                /\ res'.health_factor[i] = SpecHealthFactor(ps[i])
                /\ res'.buffer_percent[i] = SpecBuffer(SpecHealthFactor(ps[i]))
    ]_vars

\* the last monitorPositions reported two positions with different
\* identities and different health factors
C29_Witness ==
    /\ op = "monitorPositions"
    /\ res.success
    /\ Len(Positions) = 2
    /\ Len(res.positions) = 2
    /\ Positions[1].id # Positions[2].id
    /\ res.positions[1].positionId = Positions[1].id
    /\ res.health_factor[1] # res.health_factor[2]

(***************************************************************************)
(* C30: a threshold override given to monitorPositions or to               *)
(* checkAlertThreshold is the threshold of that evaluation and the stored  *)
(* threshold afterwards, for every numeric value, 0 included; without an   *)
(* override the stored threshold is used and left unchanged.               *)
(***************************************************************************)
\* the threshold a call c has to evaluate with on the memory mem
EffectiveThreshold(mem, c) ==
    IF c.alertThreshold # <<>>
    THEN c.alertThreshold[1]
    ELSE mem.monitoringState.alertThreshold

C30_ThresholdOverrideUsedAndStored ==
    [][(Succeeded("monitorPositions") \/ Succeeded("checkAlertThreshold")) =>
        LET threshold == EffectiveThreshold(agentMemory, call')
        IN  /\ agentMemory'.monitoringState.alertThreshold = threshold
            /\ op' = "checkAlertThreshold" => res'.threshold = threshold
            /\ op' = "monitorPositions" =>
                res'.alert_threshold_hit =
                    (\E i \in 1..Len(res'.buffer_percent) :
                        Below(res'.buffer_percent[i], threshold))
    ]_vars

\* the same for monitorPositions alone
C30_MonitorOverrideUsedAndStored ==
    [][Succeeded("monitorPositions") =>
        LET threshold == EffectiveThreshold(agentMemory, call')
        IN  /\ agentMemory'.monitoringState.alertThreshold = threshold
            /\ res'.alert_threshold_hit =
                    (\E i \in 1..Len(res'.buffer_percent) :
                        Below(res'.buffer_percent[i], threshold))
    ]_vars

(***************************************************************************)
(* C31: lastChecked is 0 exactly when no monitoring cycle has completed    *)
(* since the last initializeMonitoring or updateWallet, and otherwise it   *)
(* is the time of the most recent successful monitorPositions: a           *)
(* successful monitorPositions sets it to the time of the call, a          *)
(* successful initializeMonitoring or updateWallet sets it to 0, and no    *)
(* other call changes it.                                                  *)
(***************************************************************************)
C31_LastCheckedIsLastCycle ==
    [][calls' = calls + 1 =>
        IF Succeeded("monitorPositions")
        THEN agentMemory'.monitoringState.lastChecked = now
        ELSE IF Succeeded("initializeMonitoring") \/ Succeeded("updateWallet")
        THEN agentMemory'.monitoringState.lastChecked = 0
        ELSE agentMemory'.monitoringState.lastChecked =
                agentMemory.monitoringState.lastChecked
    ]_vars

\* the same with checkHealthFactor left out of the calls that keep it
C31_LastCheckedExceptHealthCheck ==
    [][calls' = calls + 1 /\ ~Succeeded("checkHealthFactor") =>
        IF Succeeded("monitorPositions")
        THEN agentMemory'.monitoringState.lastChecked = now
        ELSE IF Succeeded("initializeMonitoring") \/ Succeeded("updateWallet")
        THEN agentMemory'.monitoringState.lastChecked = 0
        ELSE agentMemory'.monitoringState.lastChecked =
                agentMemory.monitoringState.lastChecked
    ]_vars

(***************************************************************************)
(* C32: the ledger is held under the case-insensitively normalized address *)
(* of its wallet: two addresses that differ only in letter case have the   *)
(* same key, and in every reachable state the wallet stored in the ledger  *)
(* normalizes to the key of the ledger, also after initializeMonitoring or *)
(* updateWallet with a different address.                                  *)
(***************************************************************************)
C32_StoredWalletNormalizesToKey ==
    /\ positionContextKey(W1) = positionContextKey(W1Lower)
    /\ positionContextKey(agentMemory.wallet) = key

\* the key alone: it never changes, and letter case does not matter to it
C32_KeyIgnoresCase ==
    /\ positionContextKey(W1) = positionContextKey(W1Lower)
    /\ StringChars(W1) # StringChars(W1Lower)
    /\ key \in {positionContextKey(""), positionContextKey(W1Lower)}

\* the arguments of the context, and so its key, never change, and only a
\* successful initializeMonitoring or updateWallet replaces the stored wallet
C32_OnlySetupReplacesWallet ==
    [][/\ args' = args
       /\ agentMemory'.wallet # agentMemory.wallet =>
            Succeeded("initializeMonitoring") \/ Succeeded("updateWallet")
    ]_vars

(***************************************************************************)
(* C33: whenever the ledger holds a position that is already liquidatable  *)
(* (debtValue > 0 and health factor below 1), a successful                 *)
(* monitorPositions returns alert_threshold_hit = true, for every          *)
(* effective threshold in 0..100, 0 included.                              *)
(***************************************************************************)
\* the position can be liquidated now
Liquidatable(p) ==
    /\ Below(<<0, 1>>, p.debtValue)
    /\ Below(SpecHealthFactor(p), <<1, 1>>)

C33_LiquidatableAlwaysAlerts ==
    [][(/\ Succeeded("monitorPositions")
        /\ \E i \in 1..Len(Positions) : Liquidatable(Positions[i])
        /\ AtLeast(EffectiveThreshold(agentMemory, call'), <<0, 1>>)
        /\ AtLeast(<<100, 1>>, EffectiveThreshold(agentMemory, call')))
        => res'.alert_threshold_hit
    ]_vars

\* the same for the effective thresholds above 0
C33_LiquidatableAlertsAboveZero ==
    [][(/\ Succeeded("monitorPositions")
        /\ \E i \in 1..Len(Positions) : Liquidatable(Positions[i])
        /\ Below(<<0, 1>>, EffectiveThreshold(agentMemory, call')))
        => res'.alert_threshold_hit
    ]_vars

(***************************************************************************)
(* C34: for the same positions and the same stored threshold, the steps    *)
(* checkHealthFactor (all positions), calculateLiquidationPrice and        *)
(* checkAlertThreshold, run one after the other, leave the stored health-  *)
(* factor samples, liquidation-price samples and alert flag that a single  *)
(* monitorPositions call leaves.                                           *)
(***************************************************************************)
\* the ledger after one monitorPositions call without override
AfterCycle == MonitorPositionsHandler(agentMemory, [alertThreshold |-> None], now)

\* the ledger after the three steps, each without arguments
AfterHealthStep == CheckHealthFactorHandler(agentMemory, [positionId |-> None], now)
AfterPriceStep ==
    CalculateLiquidationPriceHandler(AfterHealthStep.mem, [positionId |-> None], now)
AfterSteps ==
    CheckAlertThresholdHandler(AfterPriceStep.mem, [alertThreshold |-> None], now)

C34_StepsEqualCycle ==
    AfterCycle.res.success =>
        /\ AfterHealthStep.res.success
        /\ AfterPriceStep.res.success
        /\ AfterSteps.res.success
        /\ AfterSteps.mem.monitoringState.healthFactors =
                AfterCycle.mem.monitoringState.healthFactors
        /\ AfterSteps.mem.monitoringState.liquidationPrices =
                AfterCycle.mem.monitoringState.liquidationPrices
        /\ AfterSteps.mem.monitoringState.alertThresholdHit =
                AfterCycle.mem.monitoringState.alertThresholdHit

\* the samples alone
C34_StepsStoreSameSamples ==
    AfterCycle.res.success =>
        /\ AfterSteps.res.success
        /\ AfterSteps.mem.monitoringState.healthFactors =
                AfterCycle.mem.monitoringState.healthFactors
        /\ AfterSteps.mem.monitoringState.liquidationPrices =
                AfterCycle.mem.monitoringState.liquidationPrices

\* the alert flag on a ledger without duplicate identities and with a
\* stored threshold above 0
C34_StepsRaiseSameAlertAboveZero ==
    (/\ AfterCycle.res.success
     /\ UniqueIds(Positions)
     /\ Below(<<0, 1>>, State.alertThreshold))
        => AfterSteps.mem.monitoringState.alertThresholdHit =
                AfterCycle.mem.monitoringState.alertThresholdHit

\* the alert flag on a ledger without duplicate identities
C34_StepsRaiseSameAlert ==
    (AfterCycle.res.success /\ UniqueIds(Positions))
        => AfterSteps.mem.monitoringState.alertThresholdHit =
                AfterCycle.mem.monitoringState.alertThresholdHit

(***************************************************************************)
(* C35: every stored health-factor sample and every stored liquidation-    *)
(* price sample refers to a position of the ledger (no sample survives a   *)
(* discovery that replaces the positions), and there is at most one sample *)
(* of each kind for a position identity.                                   *)
(***************************************************************************)
\* no two entries of arr carry the same position identity
OneSamplePerIdentity(arr) ==
    \A i \in 1..Len(arr) : \A k \in 1..Len(arr) :
        arr[i].positionId = arr[k].positionId => i = k

\* every entry of arr carries the identity of a position of the ledger
RefersToLedger(arr) ==
    \A i \in 1..Len(arr) :
        \E k \in 1..Len(Positions) : Positions[k].id = arr[i].positionId

C35_SamplesReferToLedger ==
    /\ RefersToLedger(State.healthFactors)
    /\ RefersToLedger(State.liquidationPrices)
    /\ OneSamplePerIdentity(State.healthFactors)
    /\ OneSamplePerIdentity(State.liquidationPrices)

\* the second half alone
C35_OneSamplePerIdentity ==
    /\ OneSamplePerIdentity(State.healthFactors)
    /\ OneSamplePerIdentity(State.liquidationPrices)

(***************************************************************************)
(* C36: a discovered position whose on-chain debt amount is not zero is    *)
(* never given the infinite health factor, and is never reported as not    *)
(* at risk only because the price lookup of its debt asset failed.         *)
(***************************************************************************)
\* the position owes a debt on chain: its debt amount, a decimal string or
\* "Infinity", is not zero
OwesDebt(p) ==
    \E i \in 1..Len(p.debtAmount) :
        p.debtAmount[i] \in {"1", "2", "3", "4", "5", "6", "7", "8", "9", "I"}

C36_DebtNeverInfinitelySafe ==
    [][Succeeded("monitorPositions") =>
        \A i \in 1..Len(Positions) :
            OwesDebt(Positions[i]) =>
                /\ res'.health_factor[i] # Infinity
                /\ res'.buffer_percent[i] # Infinity
    ]_vars

\* the same for the positions of Aave alone
C36_AaveDebtNeverInfinitelySafe ==
    [][Succeeded("monitorPositions") =>
        \A i \in 1..Len(Positions) :
            (OwesDebt(Positions[i]) /\ Positions[i].protocolId = "aave-v3") =>
                /\ res'.health_factor[i] # Infinity
                /\ res'.buffer_percent[i] # Infinity
    ]_vars

(***************************************************************************)
(* C37: in every reachable state the stored alert threshold is a number    *)
(* within 0..100, whichever initializeMonitoring, updateWallet,            *)
(* checkAlertThreshold and monitorPositions calls, with or without         *)
(* threshold overrides, produced the state.                                *)
(***************************************************************************)
\* x is a number within 0..100
WithinPercent(x) == AtLeast(x, <<0, 1>>) /\ AtLeast(<<100, 1>>, x)

C37_StoredThresholdInRange == WithinPercent(State.alertThreshold)

\* initializeMonitoring and updateWallet alone: what they store is in range
C37_SetupStoresThresholdInRange ==
    [][(/\ Succeeded("initializeMonitoring") \/ Succeeded("updateWallet")
        /\ WithinPercent(State.alertThreshold))
        => WithinPercent(agentMemory'.monitoringState.alertThreshold)
    ]_vars

(***************************************************************************)
(* C38: after updateWallet or initializeMonitoring replaces the wallet the *)
(* positions of the ledger stay empty until a discoverPositions or         *)
(* addPosition call issued after the replacement completes: a discovery    *)
(* started for the previous wallet that completes after the replacement    *)
(* does not write its positions, and the positions of the ledger were      *)
(* always fetched for the wallet the ledger is configured with.            *)
(***************************************************************************)
\* the wallet a discovered position was fetched for: the head of its identity
FetchedFor(p) == p.id[1]

C38_PositionsFetchedForWallet ==
    \A i \in 1..Len(Positions) : FetchedFor(Positions[i]) = agentMemory.wallet

\* the step is the return of a discoverPositions call that read the wallet w
\* before its fetches
ReturnsDiscoveryFor(w) ==
    \E k \in 1..Len(flights) :
        /\ ~flights[k].returned
        /\ flights'[k].returned
        /\ flights[k].wallet = w

\* a discovery whose wallet is still the wallet of the ledger when it returns
C38_CurrentDiscoveryFetchedForWallet ==
    [][ReturnsDiscoveryFor(agentMemory.wallet) =>
        \A i \in 1..Len(agentMemory'.positions) :
            FetchedFor(agentMemory'.positions[i]) = agentMemory'.wallet
    ]_vars

(***************************************************************************)
(* C39: every call of initializeMonitoring, updateWallet,                  *)
(* discoverPositions, addPosition, checkHealthFactor,                      *)
(* calculateLiquidationPrice, calculateBuffer, checkAlertThreshold or      *)
(* monitorPositions returns a result, and a call that returns a failure    *)
(* (success: false) leaves wallet, protocolIds, positions and the          *)
(* monitoring state exactly as they were before the call.                  *)
(***************************************************************************)
\* the actions that report success or failure
ReportingOperations ==
    {"initializeMonitoring", "updateWallet", "discoverPositions", "addPosition",
     "checkHealthFactor", "calculateLiquidationPrice", "calculateBuffer",
     "checkAlertThreshold", "monitorPositions"}

====
